---- MODULE Spec2Model ----
(***************************************************************************)
(* Highlights generation pipeline of SEAG25/highlights/functions/          *)
(* generateHighlights.js: rule index, row filter, record normaliser, card  *)
(* builder, sorter and paginator.                                          *)
(*                                                                         *)
(* A JavaScript string is a sequence of one-character strings, so that     *)
(* trim, toLowerCase, includes and split are computed, not assumed.        *)
(***************************************************************************)
EXTENDS Integers, Sequences, FiniteSets, TLC

VARIABLES
  pc,              \* position of the running operation
  env,             \* process.env: [credentials: whether GOOGLE_CREDENTIALS_JSON is set]
  sheets,          \* the spreadsheets served: id -> [readable, rules, rows]
  h2hSportsCache,  \* module-level `let h2hSportsCache` (None = null, Some(set))
  spreadsheetId,   \* argument of the running generateHighlights invocation
  h2hMapping,      \* const h2hMapping of the invocation (a set of keys)
  fetchThrew,      \* whether the rules fetch of this invocation threw
  query,           \* arguments <<sport, discipline>> of an isH2HSport call
  h2hResult,       \* result of that call
  data,            \* rows as loadData returns them
  validRows,       \* result of filterHighlightRows
  highlights,      \* validRows.map(formatHighlightData)
  cards,           \* the card list (after build, sort, renumbering)
  chunkSize,       \* second argument of chunkCards
  slides,          \* result of chunkCards
  prev,            \* deck of the previous generateHTML call: [cards, slides]
  result,          \* what generateHighlights returned (None while running)
  input,           \* argument of the formatTiming / normalizeDate call under way
  output,          \* what that call returned
  gcsFiles,        \* gcsFiles of generateHighlights: [html, screenshots]
  screenshotFiles, \* screenshotFiles of generateScreenshotsToGCS
  idx,             \* loop counter of generateScreenshotsToGCS
  browser,         \* the puppeteer browser: "none", "open" or "closed"
  request,         \* arguments date and sport of the invocation: [date, sport]
  calls            \* requests the invocation has issued to the sheets service,
                   \* the object store and the browser, in order

vars == <<pc, env, sheets, h2hSportsCache, spreadsheetId, h2hMapping, fetchThrew,
          query, h2hResult, data, validRows, highlights, cards, chunkSize,
          slides, prev, result, input, output, gcsFiles, screenshotFiles, idx,
          browser, request, calls>>

None == <<>>
Some(x) == <<x>>

\* generateHighlights called without date and without sport
NoFilter == [date |-> <<>>, sport |-> <<>>]

\* lines 1298-1301: nothing saved yet, and no screenshot run under way
NoExport ==
  /\ gcsFiles = [html |-> None, screenshots |-> <<>>]
  /\ screenshotFiles = <<>> /\ idx = 0 /\ browser = "none"

(***************************************************************************)
(* Strings                                                                 *)
(***************************************************************************)
LowerChars == <<"a","b","c","d","e","f","g","h","i","j","k","l","m",
                "n","o","p","q","r","s","t","u","v","w","x","y","z">>
UpperChars == <<"A","B","C","D","E","F","G","H","I","J","K","L","M",
                "N","O","P","Q","R","S","T","U","V","W","X","Y","Z">>

LetterIndex(c) ==
  IF \E k \in 1..26 : LowerChars[k] = c \/ UpperChars[k] = c
  THEN CHOOSE k \in 1..26 : LowerChars[k] = c \/ UpperChars[k] = c
  ELSE 0

IsUpperChar(c) == \E k \in 1..26 : UpperChars[k] = c
IsLowerChar(c) == \E k \in 1..26 : LowerChars[k] = c

\* String.prototype.toLowerCase / toUpperCase
ToLowerCase(s) ==
  [k \in 1..Len(s) |-> IF IsUpperChar(s[k]) THEN LowerChars[LetterIndex(s[k])] ELSE s[k]]
ToUpperCase(s) ==
  [k \in 1..Len(s) |-> IF IsLowerChar(s[k]) THEN UpperChars[LetterIndex(s[k])] ELSE s[k]]

\* the characters the regular expression class \s and trim() treat as white space
IsSpace(c) == c \in {" ", "\n", "\t"}

RECURSIVE TrimStart(_)
TrimStart(s) ==
  IF s = <<>> THEN <<>>
  ELSE IF IsSpace(Head(s)) THEN TrimStart(Tail(s)) ELSE s

RECURSIVE TrimEnd(_)
TrimEnd(s) ==
  IF s = <<>> THEN <<>>
  ELSE IF IsSpace(s[Len(s)]) THEN TrimEnd(SubSeq(s, 1, Len(s) - 1)) ELSE s

\* String.prototype.trim
Trim(s) == TrimEnd(TrimStart(s))

\* String.prototype.includes
Includes(s, sub) ==
  \E k \in 0..(Len(s) - Len(sub)) : SubSeq(s, k + 1, k + Len(sub)) = sub

\* s.split(separator): the pieces between separator characters, empty pieces kept
RECURSIVE SplitFrom(_, _, _, _)
SplitFrom(s, seps, k, cur) ==
  IF k > Len(s) THEN <<cur>>
  ELSE IF s[k] \in seps THEN <<cur>> \o SplitFrom(s, seps, k + 1, <<>>)
  ELSE SplitFrom(s, seps, k + 1, Append(cur, s[k]))

\* s.split(/\n|,/)
SplitList(s) == SplitFrom(s, {"\n", ","}, 1, <<>>)

\* s.split(':')
SplitColon(s) == SplitFrom(s, {":"}, 1, <<>>)

Digits == <<"0","1","2","3","4","5","6","7","8","9">>
IsDigit(c) == \E k \in 1..10 : Digits[k] = c
DigitValue(c) == (CHOOSE k \in 1..10 : Digits[k] = c) - 1

\* value of the longest digit prefix of s from position k, acc so far
RECURSIVE DigitsValue(_, _, _)
DigitsValue(s, k, acc) ==
  IF k <= Len(s) /\ IsDigit(s[k])
  THEN DigitsValue(s, k + 1, acc * 10 + DigitValue(s[k]))
  ELSE acc

\* parseInt(s, 10) || 0: white space skipped, an optional sign, then digits;
\* NaN (no digit) becomes 0
ParseIntOrZero(s) ==
  LET t == TrimStart(s)
      neg == t # <<>> /\ Head(t) = "-"
      body == IF t # <<>> /\ Head(t) \in {"-", "+"} THEN Tail(t) ELSE t
  IN IF body = <<>> \/ ~IsDigit(Head(body)) THEN 0
     ELSE IF neg THEN 0 - DigitsValue(body, 1, 0) ELSE DigitsValue(body, 1, 0)

\* Number.prototype.toString for an integer
RECURSIVE NatToString(_)
NatToString(n) ==
  IF n < 10 THEN <<Digits[n + 1]>>
  ELSE Append(NatToString(n \div 10), Digits[(n % 10) + 1])

IntToString(n) == IF n < 0 THEN <<"-">> \o NatToString(0 - n) ELSE NatToString(n)

\* String(n).padStart(2, '0')
PadStart2(n) == IF Len(IntToString(n)) < 2 THEN <<"0">> \o IntToString(n) ELSE IntToString(n)

Range(f) == {f[k] : k \in DOMAIN f}

(***************************************************************************)
(* Paginator: chunkCards                                                   *)
(***************************************************************************)
MaxCards == 20
MaxChunk == 10
SlideCapacity == 9

\* the loop `for (i = 0; i < cards.length; i += chunkSize) slides.push(slice)`
RECURSIVE ChunkLoop(_, _, _)
ChunkLoop(cs, size, i) ==
  IF i < Len(cs)
  THEN <<SubSeq(cs, i + 1, IF i + size < Len(cs) THEN i + size ELSE Len(cs))>>
         \o ChunkLoop(cs, size, i + size)
  ELSE <<>>

\* a paginator that returns no slide for an empty list
ChunkCardsNoEmptySlide(cs, size) ==
  IF size <= 0 THEN <<cs>> ELSE ChunkLoop(cs, size, 0)

ChunkCards(cs, size) ==
  IF size <= 0 THEN <<cs>>
  ELSE LET out == ChunkLoop(cs, size, 0)
       IN IF Len(out) > 0 THEN out ELSE << <<>> >>

(***************************************************************************)
(* RuleIndex: loadH2HSportsMapping (build) and isH2HSport (lookup)         *)
(***************************************************************************)
S_SPORTS == <<"S","P","O","R","T","S">>
S_DISCIPLINES == <<"D","I","S","C","I","P","L","I","N","E","S">>
S_H2H == <<"H","2","H">>
S_yes == <<"y","e","s">>

\* `${sport}|${discipline}`
Key(sport, discipline) == sport \o <<"|">> \o discipline

\* headers.findIndex(h => h && h.toUpperCase() === name), 1-based; 0 when absent
FindIndex(headers, name) ==
  LET hit(k) == headers[k] # <<>> /\ ToUpperCase(headers[k]) = name
  IN IF \E k \in 1..Len(headers) : hit(k)
     THEN CHOOSE k \in 1..Len(headers) : hit(k) /\ \A j \in 1..(k - 1) : ~hit(j)
     ELSE 0

\* (row[sportsColIdx] || ""), the column index counted from 1
Cell(row, col) == IF col >= 1 /\ col <= Len(row) THEN row[col] ELSE <<>>

\* s ? s.split(/\n|,/).map(x => x.trim().toUpperCase()) : []
UpperList(s) ==
  IF s = <<>> THEN <<>>
  ELSE [k \in 1..Len(SplitList(s)) |-> ToUpperCase(Trim(SplitList(s)[k]))]

\* lines 275-293: the keys one row stands for, whatever its flag
RowExpansion(row, sc, dc) ==
  LET sportList == UpperList(Trim(Cell(row, sc)))
      disciplineList == UpperList(IF dc > 0 THEN Trim(Cell(row, dc)) ELSE <<>>)
  IN IF Len(sportList) > 0
     THEN IF Len(disciplineList) > 0
          THEN {Key(s, d) : s \in Range(sportList), d \in Range(disciplineList)}
          ELSE {Key(s, <<"*">>) : s \in Range(sportList)}
     ELSE {}

\* const h2h = (row[h2hColIdx] || '').trim().toLowerCase();  h2h === 'yes'
IsYes(row, hc) == ToLowerCase(Trim(Cell(row, hc))) = S_yes

RowKeys(row, sc, dc, hc) ==
  IF IsYes(row, hc) THEN RowExpansion(row, sc, dc) ELSE {}

\* the index built from response.data.values (lines 252-298)
BuildIndex(rows) ==
  IF Len(rows) < 2 THEN {}
  ELSE LET headers == rows[1]
           sc == FindIndex(headers, S_SPORTS)
           dc == FindIndex(headers, S_DISCIPLINES)
           hc == FindIndex(headers, S_H2H)
       IN IF sc = 0 \/ hc = 0 THEN {}
          ELSE UNION {RowKeys(rows[k], sc, dc, hc) : k \in 2..Len(rows)}

\* a lookup that forgets the wildcard key
IsH2HSportNoWildcard(sport, discipline, mapping) ==
  IF mapping = {} THEN FALSE
  ELSE LET sportUpper == ToUpperCase(Trim(sport))
           disciplineUpper == ToUpperCase(Trim(discipline))
       IN \/ disciplineUpper # <<>> /\ Key(sportUpper, disciplineUpper) \in mapping
          \/ disciplineUpper = <<>> /\ Key(sportUpper, <<>>) \in mapping

IsH2HSport(sport, discipline, mapping) ==
  IF mapping = {} THEN FALSE
  ELSE LET sportUpper == ToUpperCase(Trim(sport))
           disciplineUpper == ToUpperCase(Trim(discipline))
       IN IF disciplineUpper # <<>> /\ Key(sportUpper, disciplineUpper) \in mapping
          THEN TRUE
          ELSE IF Key(sportUpper, <<"*">>) \in mapping
          THEN TRUE
          ELSE IF disciplineUpper = <<>> /\ Key(sportUpper, <<>>) \in mapping
          THEN TRUE
          ELSE FALSE

\* ---- bounded rules tables and queries
MaxRuleRows == 2

S_Judo == <<"J","u","d","o">>
S_Golf == <<"G","o","l","f">>
S_Kata == <<"K","a","t","a">>
S_Team == <<"T","e","a","m">>

HeaderChoices ==
  { <<S_SPORTS, S_DISCIPLINES, S_H2H>>,
    << <<"S","p","o","r","t","s">>, <<"N","o","t","e">>, <<"h","2","h">> >>,
    << <<"S","P","O","R","T">>, S_DISCIPLINES, S_H2H >> }

SportsCells ==
  { S_Judo, <<" ","j","u","d","o"," ">>, S_Judo \o <<"\n">> \o S_Golf }
DisciplineCells ==
  { <<>>, S_Kata, <<" ","k","a","t","a",",">> }
FlagCells ==
  { <<"Y","e","s"," ">>, <<"n","o">> }

RuleRows == { <<s, d, f>> : s \in SportsCells, d \in DisciplineCells, f \in FlagCells }

RECURSIVE SeqsUpTo(_, _)
SeqsUpTo(S, n) ==
  IF n = 0 THEN { <<>> }
  ELSE LET shorter == SeqsUpTo(S, n - 1)
       IN shorter \cup { Append(q, x) : q \in {r \in shorter : Len(r) = n - 1}, x \in S }

RulesTables ==
  { <<h>> \o body : h \in HeaderChoices, body \in SeqsUpTo(RuleRows, MaxRuleRows) }

QuerySports == { S_Judo, <<" ","J","U","D","O">>, S_Golf }
QueryDisciplines == { <<>>, S_Kata, <<"k","a","t","a"," ">>, S_Team }

Idle ==
  /\ env = [credentials |-> TRUE]
  /\ sheets = <<>> /\ h2hSportsCache = None /\ spreadsheetId = ""
  /\ h2hMapping = {} /\ fetchThrew = FALSE /\ query = <<>> /\ h2hResult = FALSE
  /\ data = <<>> /\ validRows = <<>> /\ highlights = <<>> /\ prev = None
  /\ result = None
  /\ input = <<>> /\ output = <<>>
  /\ request = NoFilter /\ calls = <<>>
  /\ NoExport

InitChunk ==
  /\ pc = "chunk"
  /\ \E n \in 0..MaxCards : cards = [k \in 1..n |-> k]
  /\ chunkSize \in 0..MaxChunk
  /\ slides = <<>>
  /\ Idle

\* one call chunkCards(cards, chunkSize)
DoChunkCards ==
  /\ pc = "chunk"
  /\ slides' = ChunkCards(cards, chunkSize)
  /\ pc' = "chunked"
  /\ UNCHANGED <<gcsFiles, screenshotFiles, idx, browser, request, calls, input, output, env, sheets, h2hSportsCache, spreadsheetId, h2hMapping, fetchThrew,
                 query, h2hResult, data, validRows, highlights, cards,
                 chunkSize, prev, result>>

NextChunk == DoChunkCards

SpecChunk == InitChunk /\ [][NextChunk]_vars

RECURSIVE Flatten(_)
Flatten(ss) == IF ss = <<>> THEN <<>> ELSE Head(ss) \o Flatten(Tail(ss))

CeilDiv(a, b) == (a + b - 1) \div b

\* C1: with capacity 9, the slides concatenate to the card list in order, each
\* holds at most 9 cards, all but the last hold exactly 9, and there are
\* max(1, ceil(|L|/9)) of them; no cards give one empty slide, 19 cards give 9, 9, 1.
C1_ChunkPartition ==
  (pc = "chunked" /\ chunkSize = SlideCapacity) =>
    /\ Flatten(slides) = cards
    /\ \A k \in 1..Len(slides) : Len(slides[k]) <= SlideCapacity
    /\ \A k \in 1..(Len(slides) - 1) : Len(slides[k]) = SlideCapacity
    /\ Len(slides) = (IF Len(cards) = 0 THEN 1 ELSE CeilDiv(Len(cards), SlideCapacity))
    /\ (cards = <<>> => slides = << <<>> >>)
    /\ (Len(cards) = 19 =>
          /\ Len(slides) = 3
          /\ Len(slides[1]) = 9 /\ Len(slides[2]) = 9 /\ Len(slides[3]) = 1)

C1_Witness ==
  /\ pc = "chunked" /\ chunkSize = SlideCapacity /\ Len(cards) = 19
  /\ Len(slides) = 3


(***************************************************************************)
(* RowFilter: filterHighlightRows                                          *)
(***************************************************************************)
S_gold == <<"g","o","l","d">>
S_silver == <<"s","i","l","v","e","r">>
S_bronze == <<"b","r","o","n","z","e">>
S_na == <<"n","a">>
S_n_a == <<"n","/","a">>
S_none == <<"n","o","n","e">>
S_no_medal == <<"n","o"," ","m","e","d","a","l">>
S_nil == <<"n","i","l">>

\* ['na', 'n/a', 'none', 'no medal', 'nil']
MedalNullMarkers == {S_na, S_n_a, S_none, S_no_medal, S_nil}

\* getCol(row, key): (row[colName] || '').trim(); a row is a record keyed by
\* the COLUMN_MAPPINGS keys, an absent column reads as ''
GetCol(row, key) == Trim(row[key])
HasValue(row, key) == GetCol(row, key) # <<>>

IsGoldMedal(row) ==
  LET medalText == Trim(GetCol(row, "MEDALS"))
  IN /\ medalText # <<>>
     /\ ToLowerCase(medalText) \notin MedalNullMarkers
     /\ Includes(ToLowerCase(medalText), S_gold)

HasBasic(row) ==
  /\ HasValue(row, "SPORT") /\ HasValue(row, "EVENT")
  /\ HasValue(row, "STAGE") /\ HasValue(row, "ATHLETE_NAME")

\* a filter that asks every row for a timing or an SGP score
RowIsValidIndividualOnly(row) ==
  /\ IsGoldMedal(row)
  /\ HasBasic(row)
  /\ (HasValue(row, "TIMING_SGP") \/ HasValue(row, "SCORE_SGP"))

\* a filter that is content with any result field, whoever it belongs to
RowIsValidAnyResult(row) ==
  /\ IsGoldMedal(row)
  /\ HasBasic(row)
  /\ \/ HasValue(row, "TIMING_SGP") \/ HasValue(row, "SCORE_SGP")
     \/ HasValue(row, "SCORE_COMPETITOR")

\* the body of the loop of filterHighlightRows: whether the row is pushed
RowIsValid(row) ==
  /\ IsGoldMedal(row)
  /\ LET isH2H == HasValue(row, "COMPETITOR_NAME") /\ HasValue(row, "COMPETITOR_COUNTRY")
     IN IF isH2H
        THEN HasBasic(row) /\ (HasValue(row, "SCORE_SGP") \/ HasValue(row, "SCORE_COMPETITOR"))
        ELSE HasBasic(row) /\ (HasValue(row, "TIMING_SGP") \/ HasValue(row, "SCORE_SGP"))

FilterHighlightRows(rows) == SelectSeq(rows, RowIsValid)

(***************************************************************************)
(* RecordNormalizer: formatTiming, formatHighlightData                     *)
(***************************************************************************)
\* a formatter that never drops a unit
FormatTimingKeepsUnits(timingStr) == Trim(timingStr)

FormatTiming(timingStr) ==
  IF timingStr = <<>> THEN <<>>
  ELSE LET res == Trim(timingStr)
           parts == SplitColon(res)
       IN IF Len(parts) = 3
          THEN LET hours == ParseIntOrZero(parts[1])
                   minutes == ParseIntOrZero(parts[2])
                   seconds == parts[3]
               IN IF hours = 0 /\ minutes = 0 THEN seconds
                  ELSE IF hours = 0 THEN IntToString(minutes) \o <<":">> \o seconds
                  ELSE IntToString(hours) \o <<":">> \o IntToString(minutes)
                         \o <<":">> \o seconds
          ELSE IF Len(parts) = 2
          THEN LET minutes == ParseIntOrZero(parts[1])
                   seconds == parts[2]
               IN IF minutes = 0 THEN seconds
                  ELSE IntToString(minutes) \o <<":">> \o seconds
          ELSE res

S_SGP == <<"S","G","P">>

\* js `a || b` on strings
OrElse(a, b) == IF a # <<>> THEN a ELSE b

FormatHighlightData(row, mapping) ==
  [ sport |-> GetCol(row, "SPORT"),
    sportTeamsg |-> OrElse(GetCol(row, "SPORT_TEAMSG"), GetCol(row, "SPORT")),
    discipline |-> GetCol(row, "DISCIPLINE"),
    event |-> GetCol(row, "EVENT"),
    eventCustom |-> GetCol(row, "EVENT_CUSTOM"),
    stage |-> GetCol(row, "STAGE"),
    dateSgp |-> GetCol(row, "DATE_SGP"),
    athleteName |-> GetCol(row, "ATHLETE_NAME"),
    countrySgp |-> OrElse(GetCol(row, "COUNTRY_SGP"), S_SGP),
    timingSgp |-> FormatTiming(GetCol(row, "TIMING_SGP")),
    scoreSgp |-> GetCol(row, "SCORE_SGP"),
    scoreCompetitor |-> GetCol(row, "SCORE_COMPETITOR"),
    competitorName |-> GetCol(row, "COMPETITOR_NAME"),
    competitorCountry |-> GetCol(row, "COMPETITOR_COUNTRY"),
    winDrawLose |-> GetCol(row, "WIN_DRAW_LOSE"),
    medals |-> GetCol(row, "MEDALS"),
    type |-> IF IsH2HSport(GetCol(row, "SPORT"), GetCol(row, "DISCIPLINE"), mapping)
             THEN "h2h" ELSE "non-h2h" ]

(***************************************************************************)
(* CardBuilder: normalizeMedal, buildCardFromHighlight                     *)
(***************************************************************************)
NormalizeMedal(medalValue) ==
  IF medalValue = <<>> THEN [label |-> <<>>, icon |-> ""]
  ELSE LET medalText == ToLowerCase(Trim(medalValue))
       IN IF medalText = <<>> \/ medalText \in MedalNullMarkers
          THEN [label |-> <<>>, icon |-> ""]
          ELSE IF Includes(medalText, S_gold)
          THEN [label |-> Trim(medalValue), icon |-> "gold"]
          ELSE IF Includes(medalText, S_silver)
          THEN [label |-> Trim(medalValue), icon |-> "silver"]
          ELSE IF Includes(medalText, S_bronze)
          THEN [label |-> Trim(medalValue), icon |-> "bronze"]
          ELSE [label |-> <<>>, icon |-> ""]

S_SportName == <<"S","p","o","r","t"," ","N","a","m","e">>
S_AthleteName == <<"A","t","h","l","e","t","e"," ","N","a","m","e">>
S_Opponent == <<"O","p","p","o","n","e","n","t">>
S_EventDetails == <<"E","v","e","n","t"," ","D","e","t","a","i","l","s">>

\* ['na', 'n/a', 'none'] of the result badge
BadgeNullMarkers == {S_na, S_n_a, S_none}

\* a score assignment that falls back to the elapsed time for either type
ScoresTimingForAll(highlight) ==
  LET scoreSgp == Trim(highlight.scoreSgp)
      scoreCompetitor == Trim(highlight.scoreCompetitor)
      timing == Trim(highlight.timingSgp)
  IN <<OrElse(scoreSgp, timing),
       IF highlight.type = "h2h" THEN scoreCompetitor ELSE <<>> >>

\* lines 722-749: <<primaryScore, opponentScore>>
Scores(highlight) ==
  LET scoreSgp == Trim(highlight.scoreSgp)
      scoreCompetitor == Trim(highlight.scoreCompetitor)
      timing == Trim(highlight.timingSgp)
  IN IF highlight.type = "h2h"
     THEN IF scoreSgp # <<>> /\ scoreCompetitor # <<>> THEN <<scoreSgp, scoreCompetitor>>
          ELSE IF scoreSgp # <<>> THEN <<scoreSgp, scoreCompetitor>>
          ELSE IF scoreCompetitor # <<>> THEN <<scoreSgp, scoreCompetitor>>
          ELSE << <<>>, <<>> >>
     ELSE IF scoreSgp # <<>> THEN <<scoreSgp, <<>> >>
          ELSE IF timing # <<>> THEN <<timing, <<>> >>
          ELSE << <<>>, <<>> >>

PrimaryCompetitor(highlight) ==
  [ name |-> Trim(OrElse(highlight.athleteName, S_AthleteName)),
    country |-> Trim(OrElse(highlight.countrySgp, S_SGP)),
    score |-> Scores(highlight)[1],
    isPrimary |-> TRUE ]

OpponentCompetitor(highlight) ==
  [ name |-> OrElse(Trim(highlight.competitorName), S_Opponent),
    country |-> Trim(highlight.competitorCountry),
    score |-> Scores(highlight)[2],
    isPrimary |-> FALSE ]

\* a builder that shows the opponent whenever opponent data exists
CompetitorsIgnoringType(highlight) ==
  IF Trim(highlight.competitorName) # <<>> \/ Trim(highlight.competitorCountry) # <<>>
  THEN <<PrimaryCompetitor(highlight), OpponentCompetitor(highlight)>>
  ELSE <<PrimaryCompetitor(highlight)>>

\* lines 753-783: the competitors array
Competitors(highlight) ==
  IF /\ highlight.type = "h2h"
     /\ (Trim(highlight.competitorName) # <<>> \/ Trim(highlight.competitorCountry) # <<>>)
  THEN <<PrimaryCompetitor(highlight), OpponentCompetitor(highlight)>>
  ELSE <<PrimaryCompetitor(highlight)>>

BuildCardFromHighlight(highlight, index) ==
  LET sport == Trim(OrElse(highlight.sport, S_SportName))
      sportTeamsg == Trim(OrElse(highlight.sportTeamsg, sport))
      eventCustom == Trim(OrElse(highlight.eventCustom, highlight.event))
      stage == Trim(highlight.stage)
      eventDetails == IF eventCustom # <<>> /\ stage # <<>>
                      THEN eventCustom \o <<" ","-"," ">> \o stage
                      ELSE OrElse(eventCustom, OrElse(stage, S_EventDetails))
      medal == NormalizeMedal(highlight.medals)
      resultBadge == OrElse(Trim(highlight.winDrawLose), medal.label)
  IN [ index |-> index,
       sport |-> sportTeamsg,
       medalLabel |-> medal.label,
       medalIcon |-> medal.icon,
       athletes |-> Trim(OrElse(highlight.athleteName, S_AthleteName)),
       eventDetails |-> eventDetails,
       resultBadge |-> IF resultBadge # <<>> /\ ToLowerCase(resultBadge) \notin BadgeNullMarkers
                       THEN resultBadge ELSE <<>>,
       competitors |-> Competitors(highlight) ]

(***************************************************************************)
(* generateHTML: build, sort by sport label, renumber, paginate            *)
(***************************************************************************)
\* primary strength: letters compared without regard to case, position by
\* position, a proper prefix first.  -1, 0 or 1.
RECURSIVE ComparePrimary(_, _)
ComparePrimary(a, b) ==
  IF a = <<>> /\ b = <<>> THEN 0
  ELSE IF a = <<>> THEN -1
  ELSE IF b = <<>> THEN 1
  ELSE IF LetterIndex(Head(a)) < LetterIndex(Head(b)) THEN -1
  ELSE IF LetterIndex(Head(a)) > LetterIndex(Head(b)) THEN 1
  ELSE ComparePrimary(Tail(a), Tail(b))

\* tertiary strength, for strings equal at primary strength: at the first
\* position that differs in case the lower-case letter comes first
RECURSIVE CompareCase(_, _)
CompareCase(a, b) ==
  IF a = <<>> \/ b = <<>> THEN 0
  ELSE IF Head(a) = Head(b) THEN CompareCase(Tail(a), Tail(b))
  ELSE IF IsLowerChar(Head(a)) THEN -1 ELSE 1

\* a comparison by UTF-16 code units ('A' < 'B' < 'a' < 'b'), as `<` on strings
CodeUnit(c) == IF IsUpperChar(c) THEN LetterIndex(c) ELSE 26 + LetterIndex(c)

RECURSIVE CodeUnitCompare(_, _)
CodeUnitCompare(a, b) ==
  IF a = <<>> /\ b = <<>> THEN 0
  ELSE IF a = <<>> THEN -1
  ELSE IF b = <<>> THEN 1
  ELSE IF CodeUnit(Head(a)) < CodeUnit(Head(b)) THEN -1
  ELSE IF CodeUnit(Head(a)) > CodeUnit(Head(b)) THEN 1
  ELSE CodeUnitCompare(Tail(a), Tail(b))

\* a.localeCompare(b) under the default (ICU root / English) collation, for
\* strings of unaccented Latin letters
LocaleCompare(a, b) ==
  IF ComparePrimary(a, b) # 0 THEN ComparePrimary(a, b) ELSE CompareCase(a, b)

\* Array.prototype.sort is stable: x goes before the first element that
\* compares greater than it
RECURSIVE InsertCard(_, _)
InsertCard(x, sorted) ==
  IF sorted = <<>> THEN <<x>>
  ELSE IF LocaleCompare(x.sport, Head(sorted).sport) < 0 THEN <<x>> \o sorted
  ELSE <<Head(sorted)>> \o InsertCard(x, Tail(sorted))

RECURSIVE SortFrom(_, _, _)
SortFrom(cs, k, acc) ==
  IF k > Len(cs) THEN acc ELSE SortFrom(cs, k + 1, InsertCard(cs[k], acc))

\* a sort that leaves the list as built
SortCardsNoSort(cs) == cs

\* cards.sort((a, b) => a.sport.localeCompare(b.sport))
SortCards(cs) == SortFrom(cs, 1, <<>>)

\* cards.forEach((card, idx) => { card.index = idx + 1 })
\* a renumbering that is skipped: cards keep the index they were built with
RenumberSkipped(cs) == cs

Renumber(cs) == [k \in 1..Len(cs) |-> [cs[k] EXCEPT !.index = k]]

\* highlights.map((highlight, idx) => buildCardFromHighlight(highlight, idx + 1))
BuiltCards(hs) == [k \in 1..Len(hs) |-> BuildCardFromHighlight(hs[k], k)]

\* the cards of the deck: lines 846-852
DeckCards(hs) == Renumber(SortCards(BuiltCards(hs)))

\* a tally that counts the individual records only
GoldCountIndividualOnly(hs) ==
  Cardinality({k \in 1..Len(hs) : hs[k].type = "non-h2h"})

\* the gold tally: lines 856-862
GoldCount(hs) ==
  Cardinality({k \in 1..Len(hs) :
     LET medals == ToLowerCase(Trim(hs[k].medals))
     IN medals # <<>> /\ medals \notin MedalNullMarkers /\ Includes(medals, S_gold)})

(***************************************************************************)
(* SpecRules: one index build followed by one lookup                       *)
(***************************************************************************)
\* whether sheetsClient.spreadsheets.values.get throws for the rules range of
\* spreadsheet id (the 'WA Template Mapping' tab cannot be read)
RulesFetchThrows(id) == ~sheets[id].readable

\* what `await loadH2HSportsMapping(sheetsClient, id)` returns and leaves in
\* the cache: the cached index if there is one, else the empty index when the
\* fetch throws, else the index built from the fetched table
LoadedIndex(id) ==
  IF h2hSportsCache # None THEN h2hSportsCache[1]
  ELSE IF RulesFetchThrows(id) THEN {}
  ELSE BuildIndex(sheets[id].rules)

InitRules ==
  /\ pc = "load"
  /\ \E t \in RulesTables : sheets = [id \in {"A"} |-> [readable |-> TRUE, rules |-> t, rows |-> <<>>]]
  /\ env = [credentials |-> TRUE]
  /\ h2hSportsCache = None
  /\ spreadsheetId = "A"
  /\ h2hMapping = {} /\ fetchThrew = FALSE /\ query = <<>> /\ h2hResult = FALSE
  /\ data = <<>> /\ validRows = <<>> /\ highlights = <<>> /\ cards = <<>>
  /\ chunkSize = 0 /\ slides = <<>> /\ prev = None /\ result = None
  /\ input = <<>> /\ output = <<>>
  /\ request = NoFilter /\ calls = <<>>
  /\ NoExport

\* loadH2HSportsMapping on a fresh process, the fetch succeeding
RulesLoad ==
  /\ pc = "load"
  /\ h2hSportsCache' = Some(LoadedIndex(spreadsheetId))
  /\ h2hMapping' = LoadedIndex(spreadsheetId)
  /\ pc' = "classify"
  /\ UNCHANGED <<gcsFiles, screenshotFiles, idx, browser, request, calls, input, output, env, sheets, spreadsheetId, fetchThrew, query, h2hResult, data,
                 validRows, highlights, cards, chunkSize, slides, prev, result>>

\* isH2HSport(sport, discipline, h2hMapping)
RulesClassify ==
  /\ pc = "classify"
  /\ \E s \in QuerySports, d \in QueryDisciplines :
       /\ query' = <<s, d>>
       /\ h2hResult' = IsH2HSport(s, d, h2hMapping)
  /\ pc' = "classified"
  /\ UNCHANGED <<gcsFiles, screenshotFiles, idx, browser, request, calls, input, output, env, sheets, h2hSportsCache, spreadsheetId, h2hMapping, fetchThrew,
                 data, validRows, highlights, cards, chunkSize, slides, prev,
                 result>>

NextRules == RulesLoad \/ RulesClassify

SpecRules == InitRules /\ [][NextRules]_vars

\* ---- what the rules table says, flag included (the reading of C4)
TheTable == sheets["A"].rules
TableSc == FindIndex(TheTable[1], S_SPORTS)
TableDc == FindIndex(TheTable[1], S_DISCIPLINES)
TableHc == FindIndex(TheTable[1], S_H2H)
TableReadable == Len(TheTable) >= 2 /\ TableSc > 0 /\ TableHc > 0

\* the rules of the table: <<key, flag>> for every key a row stands for
TableRules ==
  IF TableReadable
  THEN UNION { { <<k, IsYes(TheTable[r], TableHc)>> :
                   k \in RowExpansion(TheTable[r], TableSc, TableDc) } :
               r \in 2..Len(TheTable) }
  ELSE {}

RuleExists(k) == \E r \in TableRules : r[1] = k

\* C4: the result of classify is the yes/no flag of the first existing rule among
\* exact (sport, discipline), wildcard (sport, *), empty-discipline (sport, ""),
\* and individual when none exists. (The empty-discipline rule is the exact
\* rule of a query whose discipline is empty.)
C4_FirstRuleDecides ==
  pc = "classified" =>
    LET sportUpper == ToUpperCase(Trim(query[1]))
        disciplineUpper == ToUpperCase(Trim(query[2]))
        exact == Key(sportUpper, disciplineUpper)
        wildcard == Key(sportUpper, <<"*">>)
        first == IF RuleExists(exact) THEN Some(exact)
                 ELSE IF RuleExists(wildcard) THEN Some(wildcard)
                 ELSE None
    IN IF first = None THEN h2hResult = FALSE
       ELSE <<first[1], h2hResult>> \in TableRules

\* the table holds a 'yes' row that lists sport S and whose discipline cell is empty
HasWildcardYesRow(S) ==
  /\ TableReadable
  /\ TableDc > 0
  /\ \E r \in 2..Len(TheTable) :
       /\ IsYes(TheTable[r], TableHc)
       /\ Trim(Cell(TheTable[r], TableDc)) = <<>>
       /\ S \in Range(UpperList(Trim(Cell(TheTable[r], TableSc))))

\* C5: built from a table with a 'yes' row for sport S and an empty discipline
\* cell, classify(S, d) is head-to-head for every discipline d, empty included.
C5_WildcardRowIsH2H ==
  (pc = "classified" /\ HasWildcardYesRow(ToUpperCase(Trim(query[1])))) =>
    h2hResult = TRUE

C5_Witness ==
  /\ pc = "classified"
  /\ HasWildcardYesRow(ToUpperCase(Trim(query[1])))
  /\ query[2] = S_Team
  /\ h2hResult = TRUE


(***************************************************************************)
(* SpecRow: one sheet row through load, filter, normalise and card build   *)
(***************************************************************************)
EmptyRow ==
  [ SPORT |-> <<>>, SPORT_TEAMSG |-> <<>>, DISCIPLINE |-> <<>>, EVENT |-> <<>>,
    EVENT_CUSTOM |-> <<>>, STAGE |-> <<>>, DATE_SGP |-> <<>>,
    ATHLETE_NAME |-> <<>>, COUNTRY_SGP |-> <<>>, TIMING_SGP |-> <<>>,
    SCORE_SGP |-> <<>>, SCORE_COMPETITOR |-> <<>>, COMPETITOR_NAME |-> <<>>,
    COMPETITOR_COUNTRY |-> <<>>, WIN_DRAW_LOSE |-> <<>>, MEDALS |-> <<>> ]

StdHeader == <<S_SPORTS, S_DISCIPLINES, S_H2H>>

RowRulesTables ==
  { <<StdHeader>>,
    <<StdHeader, <<S_Judo, <<>>, S_yes>> >>,
    <<StdHeader, <<S_Judo, S_Kata, S_yes>> >> }

MedalCells == { <<>>, <<"G","o","l","d">>, <<" ","g","O","L","D"," ">>, <<"N","A">> }
\* a win/draw/lose cell: empty, a result, and two ways of writing "no value"
WinDrawLoseCells == { <<>>, <<"W","i","n">>, <<"N","A">>, <<"N","i","l">> }
BlankOr(x) == { <<>>, x }
BlankSpaceOr(x) == { <<>>, <<" ">>, x }

RowChoices ==
  { [EmptyRow EXCEPT !.MEDALS = m, !.SPORT = sp, !.DISCIPLINE = di, !.EVENT = ev,
                     !.STAGE = st, !.ATHLETE_NAME = an, !.COMPETITOR_NAME = cn,
                     !.COMPETITOR_COUNTRY = cc, !.SCORE_SGP = ss,
                     !.SCORE_COMPETITOR = sc, !.TIMING_SGP = ti,
                     !.WIN_DRAW_LOSE = wdl] :
      m \in MedalCells, sp \in BlankOr(S_Judo), di \in BlankOr(S_Kata),
      wdl \in WinDrawLoseCells,
      ev \in BlankOr(<<"5","7","k","g">>), st \in BlankOr(<<"F","i","n","a","l">>),
      an \in BlankOr(<<"T","a","n">>), cn \in BlankOr(<<"L","e","e">>),
      cc \in BlankSpaceOr(<<"M","A","S">>), ss \in BlankOr(<<"3">>),
      sc \in BlankOr(<<"1">>), ti \in BlankOr(<<"0","0",":","0","9",".","5">>) }

InitRow ==
  /\ pc = "rowLoad"
  /\ \E t \in RowRulesTables, r \in RowChoices :
       sheets = [id \in {"A"} |-> [readable |-> TRUE, rules |-> t, rows |-> <<r>>]]
  /\ env = [credentials |-> TRUE]
  /\ h2hSportsCache = None
  /\ spreadsheetId = "A"
  /\ h2hMapping = {} /\ fetchThrew = FALSE /\ query = <<>> /\ h2hResult = FALSE
  /\ data = <<>> /\ validRows = <<>> /\ highlights = <<>> /\ cards = <<>>
  /\ chunkSize = 0 /\ slides = <<>> /\ prev = None /\ result = None
  /\ input = <<>> /\ output = <<>>
  /\ request = NoFilter /\ calls = <<>>
  /\ NoExport

\* lines 1258-1260: the index and the rows are loaded
RowLoad ==
  /\ pc = "rowLoad"
  /\ h2hSportsCache' = Some(LoadedIndex(spreadsheetId))
  /\ h2hMapping' = LoadedIndex(spreadsheetId)
  /\ data' = sheets[spreadsheetId].rows
  /\ pc' = "rowFilter"
  /\ UNCHANGED <<gcsFiles, screenshotFiles, idx, browser, request, calls, input, output, env, sheets, spreadsheetId, fetchThrew, query, h2hResult, validRows,
                 highlights, cards, chunkSize, slides, prev, result>>

\* line 1262
RowFilter ==
  /\ pc = "rowFilter"
  /\ validRows' = FilterHighlightRows(data)
  /\ pc' = "rowFormat"
  /\ UNCHANGED <<gcsFiles, screenshotFiles, idx, browser, request, calls, input, output, env, sheets, h2hSportsCache, spreadsheetId, h2hMapping, fetchThrew,
                 query, h2hResult, data, highlights, cards, chunkSize, slides,
                 prev, result>>

\* line 1289
RowFormat ==
  /\ pc = "rowFormat"
  /\ highlights' = [k \in 1..Len(validRows) |-> FormatHighlightData(validRows[k], h2hMapping)]
  /\ pc' = "rowBuild"
  /\ UNCHANGED <<gcsFiles, screenshotFiles, idx, browser, request, calls, input, output, env, sheets, h2hSportsCache, spreadsheetId, h2hMapping, fetchThrew,
                 query, h2hResult, data, validRows, cards, chunkSize, slides,
                 prev, result>>

\* line 1293: generateHTML(highlights, groupKey)
RowBuild ==
  /\ pc = "rowBuild"
  /\ cards' = DeckCards(highlights)
  /\ chunkSize' = SlideCapacity
  /\ slides' = ChunkCards(DeckCards(highlights), SlideCapacity)
  /\ pc' = "rowDone"
  /\ UNCHANGED <<gcsFiles, screenshotFiles, idx, browser, request, calls, input, output, env, sheets, h2hSportsCache, spreadsheetId, h2hMapping, fetchThrew,
                 query, h2hResult, data, validRows, highlights, prev, result>>

NextRow == RowLoad \/ RowFilter \/ RowFormat \/ RowBuild

SpecRow == InitRow /\ [][NextRow]_vars

Filtered == pc \in {"rowFormat", "rowBuild", "rowDone"}

\* (a), (b) and (c) of the eligibility rule
EligibleMedal(row) ==
  LET m == ToLowerCase(Trim(row.MEDALS))
  IN Includes(m, S_gold) /\ m \notin {S_na, S_n_a, S_none, S_no_medal, S_nil}
EligibleBasics(row) ==
  \A f \in {"SPORT", "EVENT", "STAGE", "ATHLETE_NAME"} : Trim(row[f]) # <<>>
OpponentPresent(row) ==
  Trim(row.COMPETITOR_NAME) # <<>> /\ Trim(row.COMPETITOR_COUNTRY) # <<>>
EligibleResult(row) ==
  IF OpponentPresent(row)
  THEN Trim(row.SCORE_SGP) # <<>> \/ Trim(row.SCORE_COMPETITOR) # <<>>
  ELSE Trim(row.TIMING_SGP) # <<>> \/ Trim(row.SCORE_SGP) # <<>>

\* C2: a row is admitted iff its medal contains 'gold' and is no null-marker,
\* its sport, event, stage and athlete name are non-empty after trimming, and
\* it has a score (opponent name and country both present) or a timing or SGP
\* score (otherwise); a row whose medal is 'NA' is rejected.
C2_FilterAdmitsIff ==
  Filtered =>
    /\ \A k \in 1..Len(data) :
         (data[k] \in Range(validRows)) <=>
           (EligibleMedal(data[k]) /\ EligibleBasics(data[k]) /\ EligibleResult(data[k]))
    /\ \A k \in 1..Len(data) :
         data[k].MEDALS = <<"N","A">> => data[k] \notin Range(validRows)

C2_Witness ==
  /\ Filtered
  /\ Len(validRows) = 1
  /\ OpponentPresent(validRows[1])
  /\ Trim(validRows[1].SCORE_SGP) = <<>>
  /\ validRows[1].MEDALS = <<" ","g","O","L","D"," ">>

\* C3: a record of the deck classified head-to-head has a non-empty primary or
\* opponent score, and one classified individual has a non-empty elapsed time
\* or primary score, whatever the rules table.
C3_ResultMatchesClassification ==
  pc = "rowDone" =>
    \A k \in 1..Len(highlights) :
      IF highlights[k].type = "h2h"
      THEN highlights[k].scoreSgp # <<>> \/ highlights[k].scoreCompetitor # <<>>
      ELSE Trim(validRows[k].TIMING_SGP) # <<>> \/ highlights[k].scoreSgp # <<>>

\* C3 as amended: the result a record of the deck is sure to have follows the
\* presence of opponent name and country in its row, not its classification.
C3_ResultMatchesPresence ==
  pc = "rowDone" =>
    \A k \in 1..Len(highlights) :
      IF OpponentPresent(validRows[k])
      THEN highlights[k].scoreSgp # <<>> \/ highlights[k].scoreCompetitor # <<>>
      ELSE Trim(validRows[k].TIMING_SGP) # <<>> \/ highlights[k].scoreSgp # <<>>

\* presence and classification disagree on a record of the deck
C3_Witness ==
  /\ pc = "rowDone"
  /\ Len(highlights) = 1
  /\ highlights[1].type = "non-h2h"
  /\ OpponentPresent(validRows[1])
  /\ highlights[1].scoreSgp = <<>>
  /\ highlights[1].scoreCompetitor # <<>>

\* the record a card was built from
SourceOf(card) ==
  {j \in 1..Len(highlights) :
     card = [BuildCardFromHighlight(highlights[j], j) EXCEPT !.index = card.index]}

\* C10: a card has exactly one primary competitor, first in the list, and at
\* most one secondary, present only for a head-to-head record that carries an
\* opponent name or an opponent country.
C10_Competitors ==
  pc = "rowDone" =>
    \A k \in 1..Len(cards) :
      LET cs == cards[k].competitors
      IN /\ Len(cs) \in {1, 2}
         /\ cs[1].isPrimary
         /\ Cardinality({j \in 1..Len(cs) : cs[j].isPrimary}) = 1
         /\ SourceOf(cards[k]) # {}
         /\ Len(cs) = 2 =>
              \A j \in SourceOf(cards[k]) :
                /\ highlights[j].type = "h2h"
                /\ \/ highlights[j].competitorName # <<>>
                   \/ highlights[j].competitorCountry # <<>>

C10_Witness ==
  /\ pc = "rowDone"
  /\ Len(cards) = 1
  /\ Len(cards[1].competitors) = 2
  /\ cards[1].competitors[2].name = S_Opponent

\* opponent identity of a record: an opponent name or an opponent country
OpponentIdentity(h) == h.competitorName # <<>> \/ h.competitorCountry # <<>>

\* C11: for a head-to-head record the primary score is the SGP score and the
\* opponent score is the competitor score, each blank when its field is empty,
\* and the opponent row is there whenever opponent identity is, score or no
\* score; for an individual record the primary score is the score field when
\* non-empty, else the formatted elapsed time, and there is no opponent row.
C11_ScoreAssignment ==
  pc = "rowDone" =>
    \A k \in 1..Len(cards) :
      /\ SourceOf(cards[k]) # {}
      /\ \A j \in SourceOf(cards[k]) :
           LET h == highlights[j]
               cs == cards[k].competitors
           IN IF h.type = "h2h"
              THEN /\ cs[1].score = Trim(validRows[j].SCORE_SGP)
                   /\ (Len(cs) = 2) <=> OpponentIdentity(h)
                   /\ Len(cs) = 2 => cs[2].score = Trim(validRows[j].SCORE_COMPETITOR)
              ELSE /\ Len(cs) = 1
                   /\ cs[1].score =
                        IF Trim(validRows[j].SCORE_SGP) # <<>>
                        THEN Trim(validRows[j].SCORE_SGP)
                        ELSE FormatTiming(Trim(validRows[j].TIMING_SGP))

\* a head-to-head card that shows its opponent although neither score exists
C11_Witness ==
  /\ pc = "rowDone"
  /\ Len(cards) = 1
  /\ highlights[1].type = "h2h"
  /\ Len(cards[1].competitors) = 2
  /\ cards[1].competitors[1].score = <<>>
  /\ cards[1].competitors[2].score = <<>>
  /\ highlights[1].timingSgp = <<"0","9",".","5">>

\* C12: the result badge is the win/draw/lose value when that is present and
\* no null-marker, and the medal label in every other case, a win/draw/lose
\* field that holds a null-marker included.
C12_BadgeWdlElseMedal ==
  pc = "rowDone" =>
    \A k \in 1..Len(cards) :
      \A j \in SourceOf(cards[k]) :
        LET wdl == Trim(validRows[j].WIN_DRAW_LOSE)
        IN cards[k].resultBadge =
             IF wdl # <<>> /\ ToLowerCase(wdl) \notin MedalNullMarkers
             THEN wdl
             ELSE cards[k].medalLabel

\* C13: no card's result badge is a null-marker string (na, n/a, none,
\* no medal, nil in any letter case).
C13_BadgeNeverNullMarker ==
  pc = "rowDone" =>
    \A k \in 1..Len(cards) :
      ToLowerCase(cards[k].resultBadge) \notin MedalNullMarkers


(***************************************************************************)
(* SpecDeck: generateHTML on a list of eligible rows, then again on the    *)
(* same rows in another order                                              *)
(***************************************************************************)
MaxHighlights == 3

SportLabels == { <<"a">>, <<"B">>, <<"A","a">> }
AthleteNames == { <<"T","a","n">>, <<"L","i","m">> }

\* an eligible row: a gold medal, the basics, opponent and both scores
GoodRow ==
  [EmptyRow EXCEPT !.MEDALS = <<"G","o","l","d">>, !.SPORT = S_Judo,
                   !.ATHLETE_NAME = <<"T","a","n">>,
                   !.EVENT = <<"5","7","k","g">>, !.STAGE = <<"F","i","n","a","l">>,
                   !.COMPETITOR_NAME = <<"L","e","e">>,
                   !.COMPETITOR_COUNTRY = <<"M","A","S">>,
                   !.SCORE_SGP = <<"3">>, !.SCORE_COMPETITOR = <<"1">>]

DeckRows ==
  { [GoodRow EXCEPT !.SPORT_TEAMSG = l, !.ATHLETE_NAME = a] :
      l \in SportLabels, a \in AthleteNames }

\* the orderings of a list
Orderings(q) ==
  { [k \in 1..Len(q) |-> q[f[k]]] :
      f \in {g \in [1..Len(q) -> 1..Len(q)] : \A i, j \in 1..Len(q) : g[i] = g[j] => i = j} }

InitDeck ==
  /\ pc = "deck"
  /\ data \in SeqsUpTo(DeckRows, MaxHighlights)
  /\ \E t \in {<<StdHeader, <<S_Judo, <<>>, S_yes>> >>} :
       /\ h2hMapping = BuildIndex(t)
       /\ h2hSportsCache = Some(BuildIndex(t))
       /\ sheets = [id \in {"A"} |-> [readable |-> TRUE, rules |-> t, rows |-> data]]
  /\ env = [credentials |-> TRUE]
  /\ spreadsheetId = "A"
  /\ fetchThrew = FALSE /\ query = <<>> /\ h2hResult = FALSE
  /\ validRows = <<>> /\ highlights = <<>> /\ cards = <<>>
  /\ chunkSize = 0 /\ slides = <<>> /\ prev = None /\ result = None
  /\ input = <<>> /\ output = <<>>
  /\ request = NoFilter /\ calls = <<>>
  /\ NoExport

\* lines 1262-1293: filter, normalise, generateHTML
DeckGenerate ==
  /\ pc \in {"deck", "deckAgain"}
  /\ LET rows == FilterHighlightRows(data)
         hs == [k \in 1..Len(rows) |-> FormatHighlightData(rows[k], h2hMapping)]
     IN /\ validRows' = rows
        /\ highlights' = hs
        /\ cards' = DeckCards(hs)
        /\ chunkSize' = SlideCapacity
        /\ slides' = ChunkCards(DeckCards(hs), SlideCapacity)
  /\ pc' = IF pc = "deck" THEN "deckDone" ELSE "deckAgainDone"
  /\ UNCHANGED <<gcsFiles, screenshotFiles, idx, browser, request, calls, input, output, env, sheets, h2hSportsCache, spreadsheetId, h2hMapping, fetchThrew,
                 query, h2hResult, data, prev, result>>

\* the sheet is read again with its rows in another order
DeckReorder ==
  /\ pc = "deckDone"
  /\ \E q \in Orderings(data) :
       /\ data' = q
       /\ sheets' = [sheets EXCEPT !["A"].rows = q]
  /\ prev' = Some([cards |-> cards, slides |-> slides])
  /\ pc' = "deckAgain"
  /\ UNCHANGED <<gcsFiles, screenshotFiles, idx, browser, request, calls, input, output, env, h2hSportsCache, spreadsheetId, h2hMapping, fetchThrew, query,
                 h2hResult, validRows, highlights, cards, chunkSize, slides,
                 result>>

NextDeck == DeckGenerate \/ DeckReorder

SpecDeck == InitDeck /\ [][NextDeck]_vars

DeckDone == pc \in {"deckDone", "deckAgainDone"}

NoIndex(card) == [card EXCEPT !.index = 0]

\* how often card c (index aside) occurs in the list
Occurrences(c, cs) == Cardinality({k \in 1..Len(cs) : NoIndex(cs[k]) = NoIndex(c)})

SameCards(cs, ds) ==
  /\ Len(cs) = Len(ds)
  /\ \A k \in 1..Len(cs) : Occurrences(cs[k], cs) = Occurrences(cs[k], ds)

IndicesAndCardsKept ==
  /\ \A k \in 1..Len(cards) : cards[k].index = k
  /\ SameCards(cards, BuiltCards(highlights))

\* C8: after the sort the cards are in ascending case-sensitive lexicographic
\* (code unit) order of sport label, their indices are exactly 1..N in that
\* order, and they are the cards that were built, index aside.
C8_SortedCaseSensitive ==
  DeckDone =>
    /\ \A k \in 1..(Len(cards) - 1) :
         CodeUnitCompare(cards[k].sport, cards[k + 1].sport) <= 0
    /\ IndicesAndCardsKept

\* C8 as amended: the order is that of localeCompare (letters first without
\* regard to case, case only between labels that differ in nothing else, the
\* lower-case letter first); indices and cards as claimed.
C8_SortedByLocaleCompare ==
  DeckDone =>
    /\ \A k \in 1..(Len(cards) - 1) :
         LocaleCompare(cards[k].sport, cards[k + 1].sport) <= 0
    /\ IndicesAndCardsKept

\* three cards whose built order is not the sorted order
C8_Witness ==
  /\ pc = "deckDone"
  /\ Len(cards) = 3
  /\ cards[1].sport = <<"a">> /\ cards[2].sport = <<"A","a">> /\ cards[3].sport = <<"B">>
  /\ highlights[1].sportTeamsg = <<"B">>

\* C9: two orderings of the same rows give the same card sequence, indices
\* and slide contents.
C9_OrderIndependent ==
  pc = "deckAgainDone" => (cards = prev[1].cards /\ slides = prev[1].slides)

\* the cards of the list whose label compares equal to l, index aside
WithLabel(cs, l) ==
  LET Same(c) == LocaleCompare(c.sport, l) = 0
  IN [k \in 1..Len(SelectSeq(cs, Same)) |-> NoIndex(SelectSeq(cs, Same)[k])]

\* C9 as amended: two orderings of the same rows give the same cards, and at
\* every position cards of equal sport label with the same index, hence slides
\* of the same sizes; cards that share a sport label stand in the order of
\* their rows.
C9_OrderIndependentUpToTies ==
  pc = "deckAgainDone" =>
    /\ SameCards(cards, prev[1].cards)
    /\ \A k \in 1..Len(cards) :
         /\ LocaleCompare(cards[k].sport, prev[1].cards[k].sport) = 0
         /\ cards[k].index = prev[1].cards[k].index
    /\ Len(slides) = Len(prev[1].slides)
    /\ \A k \in 1..Len(slides) : Len(slides[k]) = Len(prev[1].slides[k])
    /\ \A l \in SportLabels :
         WithLabel(cards, l) = WithLabel(BuiltCards(highlights), l)

\* the second ordering differs from the first, and so do the decks
C9_Witness ==
  /\ pc = "deckAgainDone"
  /\ Len(cards) = 3
  /\ cards # prev[1].cards
  /\ cards[1].sport # cards[3].sport


(***************************************************************************)
(* normalizeDate (lines 194-234)                                           *)
(***************************************************************************)
\* parseInt(s, 10): None stands for NaN
ParseInt(s) ==
  LET t == TrimStart(s)
      body == IF t # <<>> /\ Head(t) \in {"-", "+"} THEN Tail(t) ELSE t
  IN IF body = <<>> \/ ~IsDigit(Head(body)) THEN None ELSE Some(ParseIntOrZero(s))

\* ToNumber of a string of digits, white space and other characters: the
\* trimmed string is empty (0), all digits (its value) or not a number
ToNumber(s) ==
  LET t == Trim(s)
  IN IF t = <<>> THEN Some(0)
     ELSE IF \A k \in 1..Len(t) : IsDigit(t[k]) THEN Some(DigitsValue(t, 1, 0))
     ELSE None

IsLeapYear(y) == (y % 4 = 0 /\ y % 100 # 0) \/ y % 400 = 0

\* days of month index m (0 = January) of year y
DaysInMonth(y, m) ==
  IF m = 1 THEN (IF IsLeapYear(y) THEN 29 ELSE 28)
  ELSE IF m \in {3, 5, 8, 10} THEN 30 ELSE 31

\* day d of month index m of year y, d carried into the following or
\* preceding months: <<year, month index, day>>
RECURSIVE RollDays(_, _, _)
RollDays(y, m, d) ==
  IF d > DaysInMonth(y, m)
  THEN RollDays(IF m = 11 THEN y + 1 ELSE y, (m + 1) % 12, d - DaysInMonth(y, m))
  ELSE IF d < 1
  THEN LET py == IF m = 0 THEN y - 1 ELSE y
           pm == (m + 11) % 12
       IN RollDays(py, pm, d + DaysInMonth(py, pm))
  ELSE <<y, m, d>>

\* new Date(year, monthIndex, day) on numbers that may be NaN (None): a year
\* of 0..99 means 1900 + year, month and day overflow carry; None is Invalid Date
NewDate(year, monthIndex, day) ==
  IF year = None \/ monthIndex = None \/ day = None THEN None
  ELSE LET y0 == IF year[1] \in 0..99 THEN 1900 + year[1] ELSE year[1]
           y1 == y0 + (monthIndex[1] \div 12)
           m1 == monthIndex[1] % 12
       IN RollDays(y1, m1, day[1])

\* lines 229-233: `${year}-${month}-${day}` of a valid date
FormatDate(dateObj) ==
  IntToString(dateObj[1]) \o <<"-">> \o PadStart2(dateObj[2] + 1)
    \o <<"-">> \o PadStart2(dateObj[3])

\* /^\d{4}-\d{2}-\d{2}$/
IsIsoForm(s) ==
  /\ Len(s) = 10
  /\ \A k \in {1, 2, 3, 4, 6, 7, 9, 10} : IsDigit(s[k])
  /\ s[5] = "-" /\ s[8] = "-"

\* x - 1 on a number that may be NaN
MinusOne(x) == IF x = None THEN None ELSE Some(x[1] - 1)

\* lines 203-216: the date object of a string of three parts
DateOfParts(parts) ==
  LET day == ParseInt(parts[1])
      month == ParseInt(parts[2])
      year == ParseInt(parts[3])
  IN IF year # None /\ year[1] > 2000
     THEN NewDate(year, MinusOne(month), day)
     ELSE NewDate(ToNumber(parts[3]), MinusOne(ToNumber(parts[1])), ToNumber(parts[2]))

\* new Date(dateInput) on a string that is not of three parts: the date-only
\* forms YYYY and YYYY-MM are read as UTC midnight, which is that day or the
\* day before in local time; any other text is parsed as the engine sees fit
FirstOfMonthOrEve(y, m) == { RollDays(y, m, 1), RollDays(y, m, 0) }
EngineDates == { None, <<2001, 0, 1>> }
DateOfText(s) ==
  LET parts == SplitFrom(s, {"-"}, 1, <<>>)
      FourDigits(t) == Len(t) = 4 /\ \A k \in 1..4 : IsDigit(t[k])
      Month(t) == Len(t) = 2 /\ IsDigit(t[1]) /\ IsDigit(t[2])
                    /\ DigitsValue(t, 1, 0) \in 1..12
  IN IF Len(parts) = 1 /\ FourDigits(parts[1])
     THEN FirstOfMonthOrEve(DigitsValue(parts[1], 1, 0), 0)
     ELSE IF Len(parts) = 2 /\ FourDigits(parts[1]) /\ Month(parts[2])
     THEN FirstOfMonthOrEve(DigitsValue(parts[1], 1, 0), DigitsValue(parts[2], 1, 0) - 1)
     ELSE EngineDates

\* normalizeDate: the set of values the call can return
NormalizeDate(dateInput) ==
  IF dateInput.kind = "string" /\ dateInput.s = <<>> THEN { <<>> }
  ELSE IF dateInput.kind = "string" /\ IsIsoForm(dateInput.s) THEN { dateInput.s }
  ELSE LET dateObjs ==
             IF dateInput.kind = "date" THEN { dateInput.date }
             ELSE IF dateInput.kind = "string"
             THEN LET parts == SplitFrom(dateInput.s, {"/", "-"}, 1, <<>>)
                  IN IF Len(parts) = 3 THEN { DateOfParts(parts) }
                     ELSE DateOfText(dateInput.s)
             ELSE { None }
       IN { IF d = None THEN <<>> ELSE FormatDate(d) : d \in dateObjs }

(***************************************************************************)
(* Spec: one process serving generateHighlights invocations, one after     *)
(* another, for two spreadsheets; h2hSportsCache outlives an invocation    *)
(***************************************************************************)
MaxRows == 2

SpreadsheetIds == {"A", "B"}

\* the same row without a medal
NoMedalRow == [GoodRow EXCEPT !.MEDALS = <<"N","A">>]

\* line 51
DATA_START_ROW == 8

\* the sheetName argument of the invocations
SheetName == "Results"

\* a spreadsheet: whether its rules tab can be read, the rules table, the
\* titles of its tabs, and the values of the range `${sheetName}!A:ZZ`:
\* headRows rows up to and including the header row, then the data rows
Spreadsheets ==
  [ readable : BOOLEAN,
    rules : {<<StdHeader>>, <<StdHeader, <<S_Judo, <<>>, S_yes>> >>},
    titles : {{SheetName}},
    headRows : {DATA_START_ROW},
    rows : SeqsUpTo({GoodRow, NoMedalRow}, MaxRows) ]

\* the environment of the process: GOOGLE_CREDENTIALS_JSON set (line 339),
\* GCS_BUCKET_NAME set to a bucket other than the default (lines 1295, 1304),
\* puppeteer-core and @sparticuz/chromium loaded (lines 12-19)
Env(c, b, p, ch) == [credentials |-> c, bucket |-> b, puppeteer |-> p, chromium |-> ch]

ProcessEnvs ==
  { Env(FALSE, FALSE, FALSE, FALSE), Env(TRUE, FALSE, TRUE, TRUE),
    Env(TRUE, TRUE, TRUE, TRUE) }

Init ==
  /\ pc = "idle"
  /\ env \in ProcessEnvs
  /\ sheets \in [SpreadsheetIds -> Spreadsheets]
  /\ h2hSportsCache = None
  /\ spreadsheetId = ""
  /\ h2hMapping = {} /\ fetchThrew = FALSE /\ query = <<>> /\ h2hResult = FALSE
  /\ data = <<>> /\ validRows = <<>> /\ highlights = <<>> /\ cards = <<>>
  /\ chunkSize = 0 /\ slides = <<>> /\ prev = None /\ result = None
  /\ input = <<>> /\ output = <<>>
  /\ request = NoFilter /\ calls = <<>>
  /\ NoExport

\* generateHighlights({ spreadsheetId, sheetName }) is called
Invoke ==
  /\ pc \in {"idle", "done", "failed"}
  /\ \E id \in SpreadsheetIds : spreadsheetId' = id
  /\ request' = NoFilter
  /\ h2hMapping' = {} /\ fetchThrew' = FALSE
  /\ data' = <<>> /\ validRows' = <<>> /\ highlights' = <<>> /\ cards' = <<>>
  /\ slides' = <<>> /\ result' = None
  /\ gcsFiles' = [html |-> None, screenshots |-> <<>>]
  /\ screenshotFiles' = <<>> /\ idx' = 0 /\ browser' = "none"
  /\ calls' = <<>>
  /\ pc' = "getClient"
  /\ UNCHANGED <<input, output, env, sheets, h2hSportsCache, query, h2hResult,
                 chunkSize, prev>>

\* a getSheetsClient that does not look at the credentials
GetSheetsClientUnchecked ==
  /\ pc = "getClient"
  /\ pc' = "loadRules"
  /\ UNCHANGED <<gcsFiles, screenshotFiles, idx, browser, request, calls, input, output, env, sheets, h2hSportsCache, spreadsheetId, h2hMapping, fetchThrew,
                 query, h2hResult, data, validRows, highlights, cards, chunkSize,
                 slides, prev, result>>

\* line 1256, getSheetsClient with the credentials set
GetSheetsClient ==
  /\ pc = "getClient"
  /\ env.credentials
  /\ pc' = "loadRules"
  /\ UNCHANGED <<gcsFiles, screenshotFiles, idx, browser, request, calls, input, output, env, sheets, h2hSportsCache, spreadsheetId, h2hMapping, fetchThrew,
                 query, h2hResult, data, validRows, highlights, cards, chunkSize,
                 slides, prev, result>>

\* lines 341-343 and 1341-1344: no credentials, the invocation throws
GetSheetsClientThrows ==
  /\ pc = "getClient"
  /\ ~env.credentials
  /\ result' = Some([ok |-> FALSE, error |-> "credentials"])
  /\ pc' = "failed"
  /\ UNCHANGED <<gcsFiles, screenshotFiles, idx, browser, request, calls, input, output, env, sheets, h2hSportsCache, spreadsheetId, h2hMapping, fetchThrew,
                 query, h2hResult, data, validRows, highlights, cards, chunkSize,
                 slides, prev>>

\* lines 242-250: the rules table is requested when the cache is unset
RulesRequest == IF h2hSportsCache = None THEN <<"rules">> ELSE <<>>

\* a load whose catch block lets the error escape: the invocation fails
LoadRulesRethrows ==
  /\ pc = "loadRules"
  /\ calls' = calls \o RulesRequest
  /\ IF h2hSportsCache = None /\ RulesFetchThrows(spreadsheetId)
     THEN /\ pc' = "failed"
          /\ fetchThrew' = TRUE
          /\ result' = Some([ok |-> FALSE, error |-> "rules"])
          /\ UNCHANGED <<h2hSportsCache, h2hMapping>>
     ELSE /\ pc' = "loadData"
          /\ h2hSportsCache' = Some(LoadedIndex(spreadsheetId))
          /\ h2hMapping' = LoadedIndex(spreadsheetId)
          /\ UNCHANGED <<fetchThrew, result>>
  /\ UNCHANGED <<gcsFiles, screenshotFiles, idx, browser, request, input, output, env, sheets, spreadsheetId, query, h2hResult, data, validRows,
                 highlights, cards, chunkSize, slides, prev>>

\* line 1258, loadH2HSportsMapping(sheetsClient, spreadsheetId): lines 241-304
LoadRules ==
  /\ pc = "loadRules"
  /\ calls' = calls \o RulesRequest
  /\ h2hSportsCache' = Some(LoadedIndex(spreadsheetId))
  /\ h2hMapping' = LoadedIndex(spreadsheetId)
  /\ fetchThrew' = (h2hSportsCache = None /\ RulesFetchThrows(spreadsheetId))
  /\ pc' = "loadData"
  /\ UNCHANGED <<gcsFiles, screenshotFiles, idx, browser, request, input, output, env, sheets, spreadsheetId, query, h2hResult, data, validRows,
                 highlights, cards, chunkSize, slides, prev, result>>

\* lines 455-471: the data rows of the values fetched, none when the values
\* end before the header row
DataRows(sheet) ==
  IF sheet.headRows + Len(sheet.rows) < DATA_START_ROW THEN <<>> ELSE sheet.rows

\* a loadData without the test of lines 457-459: reading the header row of
\* values that end before it throws
LoadDataHeaderRead ==
  /\ pc = "loadData"
  /\ calls' = calls \o <<"metadata", "rows">>
  /\ IF sheets[spreadsheetId].headRows + Len(sheets[spreadsheetId].rows) < DATA_START_ROW
     THEN /\ result' = Some([ok |-> FALSE, error |-> "header"])
          /\ pc' = "failed"
          /\ UNCHANGED data
     ELSE /\ data' = sheets[spreadsheetId].rows
          /\ pc' = "generate"
          /\ UNCHANGED result
  /\ UNCHANGED <<gcsFiles, screenshotFiles, idx, browser, request, input, output, env, sheets, h2hSportsCache, spreadsheetId, h2hMapping, fetchThrew,
                 query, h2hResult, validRows, highlights, cards, chunkSize, slides,
                 prev>>

\* line 1260, loadData (lines 432-471): the titles are requested, and an
\* error of that request or of the test of sheetName against them (line 444)
\* is caught and logged (lines 446-448); the values are requested and returned
LoadData ==
  /\ pc = "loadData"
  /\ calls' = calls \o <<"metadata", "rows">>
  /\ data' = DataRows(sheets[spreadsheetId])
  /\ pc' = "generate"
  /\ UNCHANGED <<gcsFiles, screenshotFiles, idx, browser, request, input, output, env, sheets, h2hSportsCache, spreadsheetId, h2hMapping, fetchThrew,
                 query, h2hResult, validRows, highlights, cards, chunkSize, slides,
                 prev, result>>

\* lines 450-453 and 472-475: the row fetch throws, and so does the invocation
LoadDataThrows ==
  /\ pc = "loadData"
  /\ calls' = calls \o <<"metadata", "rows">>
  /\ result' = Some([ok |-> FALSE, error |-> "loadData"])
  /\ pc' = "failed"
  /\ UNCHANGED <<gcsFiles, screenshotFiles, idx, browser, request, input, output, env, sheets, h2hSportsCache, spreadsheetId, h2hMapping, fetchThrew,
                 query, h2hResult, data, validRows, highlights, cards, chunkSize,
                 slides, prev>>

\* a string as an argument of normalizeDate
DateString(t) == [kind |-> "string", s |-> t, date |-> None]

\* line 1274: (row[COLUMN_MAPPINGS.DATE_SGP] || '').trim()
RowDate(row) == Trim(row.DATE_SGP)

\* the strings lines 1271 and 1277 hand to normalizeDate
DatesToNormalize(rows, target) ==
  IF target = <<>> THEN {}
  ELSE {target} \cup ({RowDate(rows[k]) : k \in 1..Len(rows)} \ {<<>>})

\* what normalizeDate returns for each of these strings during one invocation
Normalizers(texts) ==
  IF texts = {} THEN { <<>> }
  ELSE { norm \in [texts -> UNION {NormalizeDate(DateString(t)) : t \in texts}] :
           \A t \in texts : norm[t] \in NormalizeDate(DateString(t)) }

\* lines 1270-1280
FilterByDate(rows, target, norm) ==
  IF target = <<>> THEN rows
  ELSE LET Keep(row) == RowDate(row) # <<>> /\ norm[RowDate(row)] = norm[target]
       IN SelectSeq(rows, Keep)

\* lines 1282-1287
FilterBySport(rows, target) ==
  IF target = <<>> THEN rows
  ELSE LET Keep(row) == ToLowerCase(Trim(row.SPORT)) = ToLowerCase(target)
       IN SelectSeq(rows, Keep)

\* lines 1262-1301: filter, date and sport filters, normalise, generateHTML,
\* and gcsFiles set to { html: null, screenshots: [] }
Generate ==
  /\ pc = "generate"
  /\ \E norm \in Normalizers(DatesToNormalize(FilterHighlightRows(data), request.date)) :
       validRows' = FilterBySport(FilterByDate(FilterHighlightRows(data), request.date, norm),
                                  request.sport)
  /\ highlights' = [k \in 1..Len(validRows') |-> FormatHighlightData(validRows'[k], h2hMapping)]
  /\ cards' = DeckCards(highlights')
  /\ chunkSize' = SlideCapacity
  /\ slides' = ChunkCards(cards', chunkSize')
  /\ gcsFiles' = [html |-> None, screenshots |-> <<>>]
  /\ pc' = "export"
  /\ UNCHANGED <<screenshotFiles, idx, browser, request, calls, input, output, env, sheets,
                 h2hSportsCache, spreadsheetId, h2hMapping, fetchThrew, query,
                 h2hResult, data, prev, result>>

S_AllHighlights == <<"A","l","l"," ","H","i","g","h","l","i","g","h","t","s">>

IsAlnum(c) == IsDigit(c) \/ IsLowerChar(c) \/ IsUpperChar(c)

\* groupKey.replace(/[^a-zA-Z0-9]/g, '_')
Sanitize(s) == [k \in 1..Len(s) |-> IF IsAlnum(s[k]) THEN s[k] ELSE "_"]

\* line 1291: date || sport || 'All Highlights'
GroupKey == OrElse(request.date, OrElse(request.sport, S_AllHighlights))

\* lines 1264-1268 and 1312: the date argument, else today's date;
\* `highlights/${folderDate}`
FolderDate == OrElse(request.date, <<"<today>">>)
GcsFolderPath == <<"h","i","g","h","l","i","g","h","t","s","/">> \o FolderDate

\* line 1309: `highlights_${...}_${timestamp}`, the timestamp read off the clock
BaseFileName == <<"h","i","g","h","l","i","g","h","t","s","_">> \o Sanitize(GroupKey) \o <<"_", "<timestamp>">>

\* line 1310
HtmlFileName == BaseFileName \o <<".","h","t","m","l">>

\* a screenshot name without the zero padding
SlideFileNameUnpadded(baseFileName, n) ==
  baseFileName \o <<"_","s","l","i","d","e","_">> \o IntToString(n) \o <<".","p","n","g">>

\* line 1415: `${baseFileName}_slide_${String(idx + 1).padStart(2, '0')}.png`
SlideFileName(baseFileName, n) ==
  baseFileName \o <<"_","s","l","i","d","e","_">> \o PadStart2(n) \o <<".","p","n","g">>

\* lines 372-397, 402-427: what saveHtmlToGCS and saveImageToGCS return
GcsInfo(folderPath, fileName) == [filePath |-> folderPath \o <<"/">> \o fileName]

\* lines 1334-1340: the object generateHighlights returns
Returned(files) ==
  Some([ok |-> TRUE,
        html |-> [goldCount |-> GoldCount(highlights), slides |-> slides],
        highlightCount |-> Len(highlights),
        groupKey |-> GroupKey,
        folderDate |-> FolderDate,
        gcsFiles |-> files])

\* an export that saves the deck whether a bucket is configured or not
ExportAlways ==
  /\ pc = "export"
  /\ ~env.bucket
  /\ calls' = Append(calls, "saveHtml")
  /\ gcsFiles' = [gcsFiles EXCEPT !.html = Some(GcsInfo(GcsFolderPath, HtmlFileName))]
  /\ result' = Returned([gcsFiles EXCEPT
                           !.html = Some(GcsInfo(GcsFolderPath, HtmlFileName))])
  /\ pc' = "done"
  /\ UNCHANGED <<screenshotFiles, idx, browser, request, input, output, env, sheets,
                 h2hSportsCache, spreadsheetId, h2hMapping, fetchThrew, query,
                 h2hResult, data, validRows, highlights, cards, chunkSize, slides,
                 prev>>

\* lines 1304, 1330-1340: no bucket configured, nothing is exported
SkipExport ==
  /\ pc = "export"
  /\ ~env.bucket
  /\ result' = Returned(gcsFiles)
  /\ pc' = "done"
  /\ UNCHANGED <<gcsFiles, screenshotFiles, idx, browser, request, calls, input, output, env, sheets,
                 h2hSportsCache, spreadsheetId, h2hMapping, fetchThrew, query,
                 h2hResult, data, validRows, highlights, cards, chunkSize, slides,
                 prev>>

\* lines 1306-1317: the deck is saved; screenshots follow if puppeteer is
\* loaded and there is a highlight, else the invocation returns
SaveHtml ==
  /\ pc = "export"
  /\ env.bucket
  /\ calls' = Append(calls, "saveHtml")
  /\ gcsFiles' = [gcsFiles EXCEPT !.html = Some(GcsInfo(GcsFolderPath, HtmlFileName))]
  /\ IF env.puppeteer /\ Len(highlights) > 0
     THEN pc' = "screenshots" /\ UNCHANGED result
     ELSE pc' = "done"
          /\ result' = Returned([gcsFiles EXCEPT
                                   !.html = Some(GcsInfo(GcsFolderPath, HtmlFileName))])
  /\ UNCHANGED <<screenshotFiles, idx, browser, request, input, output, env, sheets,
                 h2hSportsCache, spreadsheetId, h2hMapping, fetchThrew, query,
                 h2hResult, data, validRows, highlights, cards, chunkSize, slides,
                 prev>>

\* lines 1306-1315 and 1326-1329: saveHtmlToGCS throws, the catch logs and the
\* invocation returns
SaveHtmlThrows ==
  /\ pc = "export"
  /\ env.bucket
  /\ calls' = Append(calls, "saveHtml")
  /\ result' = Returned(gcsFiles)
  /\ pc' = "done"
  /\ UNCHANGED <<gcsFiles, screenshotFiles, idx, browser, request, input, output, env, sheets,
                 h2hSportsCache, spreadsheetId, h2hMapping, fetchThrew, query,
                 h2hResult, data, validRows, highlights, cards, chunkSize, slides,
                 prev>>

\* lines 1351-1399: without chromium the call returns []; else the browser is
\* launched, the deck loaded and its slides found
LaunchBrowser ==
  /\ pc = "screenshots"
  /\ IF ~env.puppeteer \/ ~env.chromium
     THEN /\ pc' = "done"
          /\ result' = Returned(gcsFiles)
          /\ UNCHANGED <<screenshotFiles, idx, browser, calls>>
     ELSE /\ pc' = "capture"
          /\ browser' = "open"
          /\ calls' = Append(calls, "launch")
          /\ screenshotFiles' = <<>>
          /\ idx' = 0
          /\ UNCHANGED result
  /\ UNCHANGED <<gcsFiles, request, input, output, env, sheets, h2hSportsCache, spreadsheetId,
                 h2hMapping, fetchThrew, query, h2hResult, data, validRows,
                 highlights, cards, chunkSize, slides, prev>>

\* lines 1374-1399, 1451-1454 and 1322-1324: the launch, or loading the deck
\* into the page, throws; the error is rethrown, caught and logged by
\* generateHighlights, gcsFiles.screenshots stays []
LaunchBrowserThrows ==
  /\ pc = "screenshots"
  /\ env.puppeteer /\ env.chromium
  /\ browser' \in {"none", "open"}
  /\ calls' = Append(calls, "launch")
  /\ result' = Returned(gcsFiles)
  /\ pc' = "done"
  /\ UNCHANGED <<gcsFiles, screenshotFiles, idx, request, input, output, env, sheets,
                 h2hSportsCache, spreadsheetId, h2hMapping, fetchThrew, query,
                 h2hResult, data, validRows, highlights, cards, chunkSize, slides,
                 prev>>

\* lines 1402-1428: slide idx is shown, captured and saved
CaptureSlide ==
  /\ pc = "capture"
  /\ idx < Len(slides)
  /\ calls' = calls \o <<"screenshot", "saveImage">>
  /\ screenshotFiles' =
       Append(screenshotFiles, GcsInfo(GcsFolderPath, SlideFileName(BaseFileName, idx + 1)))
  /\ idx' = idx + 1
  /\ UNCHANGED <<gcsFiles, browser, request, input, output, env, sheets, h2hSportsCache,
                 spreadsheetId, h2hMapping, fetchThrew, query, h2hResult, data,
                 validRows, highlights, cards, chunkSize, slides, prev, result, pc>>

\* a capture failure that escapes generateHighlights
CaptureSlideThrowsEscapes ==
  /\ pc = "capture"
  /\ idx < Len(slides)
  /\ calls' = Append(calls, "screenshot")
  /\ result' = Some([ok |-> FALSE, error |-> "screenshot"])
  /\ pc' = "failed"
  /\ UNCHANGED <<gcsFiles, screenshotFiles, idx, browser, request, input, output, env, sheets,
                 h2hSportsCache, spreadsheetId, h2hMapping, fetchThrew, query,
                 h2hResult, data, validRows, highlights, cards, chunkSize, slides,
                 prev>>

\* lines 1402-1428, 1451-1454 and 1322-1324: showing, capturing or saving slide
\* idx throws; the loop is left, the error is rethrown, caught and logged by
\* generateHighlights, gcsFiles.screenshots stays [] and the browser open
CaptureSlideThrows ==
  /\ pc = "capture"
  /\ idx < Len(slides)
  /\ calls' = Append(calls, "screenshot")
  /\ result' = Returned(gcsFiles)
  /\ pc' = "done"
  /\ UNCHANGED <<gcsFiles, screenshotFiles, idx, browser, request, input, output, env, sheets,
                 h2hSportsCache, spreadsheetId, h2hMapping, fetchThrew, query,
                 h2hResult, data, validRows, highlights, cards, chunkSize, slides,
                 prev>>

\* lines 1449-1450 and 1319-1321: the browser is closed, the list returned
FinishScreenshots ==
  /\ pc = "capture"
  /\ idx = Len(slides)
  /\ browser' = "closed"
  /\ calls' = Append(calls, "close")
  /\ gcsFiles' = [gcsFiles EXCEPT !.screenshots = screenshotFiles]
  /\ result' = Returned([gcsFiles EXCEPT !.screenshots = screenshotFiles])
  /\ pc' = "done"
  /\ UNCHANGED <<screenshotFiles, idx, request, input, output, env, sheets, h2hSportsCache,
                 spreadsheetId, h2hMapping, fetchThrew, query, h2hResult, data,
                 validRows, highlights, cards, chunkSize, slides, prev>>

Next ==
  \/ Invoke \/ GetSheetsClient \/ GetSheetsClientThrows \/ LoadRules
  \/ LoadData \/ LoadDataThrows \/ Generate
  \/ SkipExport \/ SaveHtml \/ SaveHtmlThrows
  \/ LaunchBrowser \/ LaunchBrowserThrows
  \/ CaptureSlide \/ CaptureSlideThrows \/ FinishScreenshots

Spec == Init /\ [][Next]_vars

\* the index that loadH2HSportsMapping builds for spreadsheet id alone
IndexOf(id) == IF sheets[id].readable THEN BuildIndex(sheets[id].rules) ELSE {}

TypeUnder(h, mapping) ==
  IF IsH2HSport(h.sport, h.discipline, mapping) THEN "h2h" ELSE "non-h2h"

\* C6: whatever was invoked before in the process, an invocation for a
\* spreadsheet classifies its records with the index built from that
\* spreadsheet's rules table (stated for processes in which every rules table
\* can be read).
C6_IndexOfOwnSpreadsheet ==
  (pc = "done" /\ \A id \in SpreadsheetIds : sheets[id].readable) =>
    \A k \in 1..Len(highlights) :
      highlights[k].type = TypeUnder(highlights[k], IndexOf(spreadsheetId))

\* C7: when the rules fetch of an invocation throws, the index is empty, every
\* record is classified individual, and the invocation does not fail for it:
\* it goes on to return a deck and a highlight count.
C7_UnreadableRulesDegrade ==
  fetchThrew =>
    /\ h2hMapping = {}
    /\ h2hSportsCache = Some({})
    /\ \A k \in 1..Len(highlights) : highlights[k].type = "non-h2h"
    /\ pc \in {"loadData", "generate", "export", "screenshots", "capture", "done",
               "failed"}
    /\ pc = "failed" => result[1].error = "loadData"
    /\ pc = "done" =>
         /\ result[1].ok
         /\ result[1].highlightCount = Len(highlights)
         /\ Len(slides) >= 1

\* a Judo record of a spreadsheet whose table says head-to-head but cannot be read
C7_Witness ==
  /\ fetchThrew
  /\ pc = "done"
  /\ result[1].highlightCount = 2
  /\ IsH2HSport(highlights[1].sport, highlights[1].discipline,
                BuildIndex(sheets[spreadsheetId].rules))

(***************************************************************************)
(* SpecTiming: formatTiming on the elapsed-time cell of a row (line 617)   *)
(***************************************************************************)
MaxSegments == 4

\* what may stand between two colons of an elapsed-time cell
SegmentCells ==
  { <<>>, <<"0">>, <<"0","0">>, <<"0","5">>, <<"1","2">>, <<"x">>,
    <<"9",".","5">>, <<" ","1">> }

\* the segments written with colons between them
RECURSIVE JoinColon(_)
JoinColon(segs) ==
  IF segs = <<>> THEN <<>>
  ELSE IF Len(segs) = 1 THEN segs[1]
  ELSE segs[1] \o <<":">> \o JoinColon(Tail(segs))

TimingCells == { JoinColon(segs) : segs \in SeqsUpTo(SegmentCells, MaxSegments) }

InitTiming ==
  /\ pc = "timing"
  /\ \E c \in TimingCells :
       sheets = [id \in {"A"} |-> [readable |-> TRUE, rules |-> <<>>,
                                   rows |-> <<[EmptyRow EXCEPT !.TIMING_SGP = c]>>]]
  /\ env = [credentials |-> TRUE]
  /\ h2hSportsCache = None /\ spreadsheetId = "A"
  /\ h2hMapping = {} /\ fetchThrew = FALSE /\ query = <<>> /\ h2hResult = FALSE
  /\ data = <<>> /\ validRows = <<>> /\ highlights = <<>> /\ cards = <<>>
  /\ chunkSize = 0 /\ slides = <<>> /\ prev = None /\ result = None
  /\ input = <<>> /\ output = <<>>
  /\ request = NoFilter /\ calls = <<>>
  /\ NoExport

\* line 617: formatTiming(getCol('TIMING_SGP'))
DoFormatTiming ==
  /\ pc = "timing"
  /\ input' = GetCol(sheets["A"].rows[1], "TIMING_SGP")
  /\ output' = FormatTiming(GetCol(sheets["A"].rows[1], "TIMING_SGP"))
  /\ pc' = "timed"
  /\ UNCHANGED <<gcsFiles, screenshotFiles, idx, browser, request, calls, env,
                 sheets, h2hSportsCache, spreadsheetId, h2hMapping, fetchThrew,
                 query, h2hResult, data, validRows, highlights, cards, chunkSize,
                 slides, prev, result>>

NextTiming == DoFormatTiming

SpecTiming == InitTiming /\ [][NextTiming]_vars

\* a unit written with digits only
AllDigits(seg) == seg # <<>> /\ \A k \in 1..Len(seg) : IsDigit(seg[k])
\* a unit whose value is zero: zeros only
ZeroUnit(seg) == seg # <<>> /\ \A k \in 1..Len(seg) : seg[k] = "0"
NonZeroUnit(seg) == AllDigits(seg) /\ ~ZeroUnit(seg)

SegmentsIn(s) == SplitColon(s)

MaxDateParts == 3

\* what may stand between the separators of a date text
DateParts ==
  { <<>>, <<"1">>, <<"0","2">>, <<"1","2">>, <<"3","1">>, <<"5","0","0">>,
    <<"2","0","2","5">>, <<"x">> }

\* parts written with the separators between them
RECURSIVE JoinWith(_, _)
JoinWith(parts, seps) ==
  IF Len(parts) = 1 THEN parts[1]
  ELSE parts[1] \o <<seps[1]>> \o JoinWith(Tail(parts), Tail(seps))

DateTexts ==
  UNION { { JoinWith(parts, seps) :
              parts \in [1..n -> DateParts], seps \in [1..(n - 1) -> {"/", "-"}] } :
          n \in 1..MaxDateParts }

\* the values normalizeDate is called with: a text, a Date (valid or Invalid
\* Date), or a value that is neither
DateInputs ==
  { [kind |-> "string", s |-> t, date |-> None] : t \in DateTexts }
    \cup { [kind |-> "date", s |-> <<>>, date |-> d] : d \in {None, <<2025, 11, 2>>} }
    \cup { [kind |-> "other", s |-> <<>>, date |-> None] }

InitDate ==
  /\ pc = "date"
  /\ Idle
  /\ cards = <<>> /\ chunkSize = 0 /\ slides = <<>>

\* lines 1271, 1277: normalizeDate(date), normalizeDate(rowDate)
DoNormalizeDate ==
  /\ pc = "date"
  /\ \E v \in DateInputs :
       /\ input' = v
       /\ output' \in NormalizeDate(v)
  /\ pc' = "dated"
  /\ UNCHANGED <<gcsFiles, screenshotFiles, idx, browser, request, calls, env,
                 sheets, h2hSportsCache, spreadsheetId, h2hMapping, fetchThrew,
                 query, h2hResult, data, validRows, highlights, cards, chunkSize,
                 slides, prev, result>>

NextDate == DoNormalizeDate

SpecDate == InitDate /\ [][NextDate]_vars

TwoDigits(t) == Len(t) = 2 /\ \A k \in 1..2 : IsDigit(t[k])
FourDigits(t) == Len(t) = 4 /\ \A k \in 1..4 : IsDigit(t[k])

\* year y, month m, day d (digit strings) name a day of the calendar
CalendarDate(y, m, d) ==
  /\ DigitsValue(m, 1, 0) \in 1..12
  /\ DigitsValue(d, 1, 0) \in 1..DaysInMonth(DigitsValue(y, 1, 0), DigitsValue(m, 1, 0) - 1)

IsoOf(y, m, d) == y \o <<"-">> \o m \o <<"-">> \o d

\* C15: an ISO YYYY-MM-DD text comes back unchanged; a slash- or dash-delimited
\* date written day-first (DD/MM/YYYY) or year-first (YYYY/MM/DD) comes back as
\* the same calendar date in YYYY-MM-DD form.
C15_SameCalendarDate ==
  (pc = "dated" /\ input.kind = "string") =>
    /\ IsIsoForm(input.s) => output = input.s
    /\ \A sep \in {"/", "-"} :
         LET parts == SplitFrom(input.s, {sep}, 1, <<>>)
         IN Len(parts) = 3 =>
              /\ ( /\ TwoDigits(parts[1]) /\ TwoDigits(parts[2]) /\ FourDigits(parts[3])
                   /\ CalendarDate(parts[3], parts[2], parts[1]) )
                 => output = IsoOf(parts[3], parts[2], parts[1])
              /\ ( /\ FourDigits(parts[1]) /\ TwoDigits(parts[2]) /\ TwoDigits(parts[3])
                   /\ CalendarDate(parts[1], parts[2], parts[3]) )
                 => output = IsoOf(parts[1], parts[2], parts[3])

\* C16: whatever the input, the call returns, and what it returns is the empty
\* string or a text of the form YYYY-MM-DD.
C16_EmptyOrIsoForm ==
  pc = "dated" => (output = <<>> \/ IsIsoForm(output))

(***************************************************************************)
(* SpecExport: generateHighlights on a sheet of many rows, with export     *)
(***************************************************************************)
MaxDeckRows == 19

ExportEnvs == ProcessEnvs \cup { Env(TRUE, TRUE, FALSE, FALSE), Env(TRUE, TRUE, TRUE, FALSE) }

\* a sheet of n eligible rows, alone or after a row without a medal or a row
\* whose medal is written ' gOLD '
ExportRows ==
  { first \o [k \in 1..n |-> GoodRow] :
      n \in 0..MaxDeckRows,
      first \in { <<>>, <<NoMedalRow>>,
                  <<[GoodRow EXCEPT !.MEDALS = <<" ","g","O","L","D"," ">>]>> } }

ExportSheets ==
  { [readable |-> TRUE, rules |-> t, titles |-> {SheetName},
     headRows |-> DATA_START_ROW, rows |-> r] :
      t \in {<<StdHeader>>, <<StdHeader, <<S_Judo, <<>>, S_yes>> >>}, r \in ExportRows }

InitExport ==
  /\ pc = "idle"
  /\ env \in ExportEnvs
  /\ \E sheet \in ExportSheets : sheets = [id \in SpreadsheetIds |-> sheet]
  /\ h2hSportsCache = None
  /\ spreadsheetId = ""
  /\ h2hMapping = {} /\ fetchThrew = FALSE /\ query = <<>> /\ h2hResult = FALSE
  /\ data = <<>> /\ validRows = <<>> /\ highlights = <<>> /\ cards = <<>>
  /\ chunkSize = 0 /\ slides = <<>> /\ prev = None /\ result = None
  /\ input = <<>> /\ output = <<>>
  /\ request = NoFilter /\ calls = <<>>
  /\ NoExport

SpecExport == InitExport /\ [][Next]_vars

\* C17: the gold tally of a deck equals its highlight count, whatever the
\* classification of its records, and the deck has max(1, ceil(count / 9))
\* slides; 10 eligible rows give tally 10 and 2 slides.
C17_TallyAndSlides ==
  pc = "done" =>
    LET n == result[1].highlightCount
    IN /\ n = Len(highlights)
       /\ result[1].html.goldCount = n
       /\ Len(result[1].html.slides) = (IF n = 0 THEN 1 ELSE CeilDiv(n, 9))
       /\ n = 10 => (result[1].html.goldCount = 10 /\ Len(result[1].html.slides) = 2)

\* ten head-to-head records on two slides
C17_Witness ==
  /\ pc = "done"
  /\ result[1].highlightCount = 10
  /\ result[1].html.goldCount = 10
  /\ Len(slides) = 2
  /\ highlights[1].type = "h2h"

\* the name the artifact of slide n is to have
ExpectedSlideName(n) ==
  BaseFileName \o <<"_","s","l","i","d","e","_">>
    \o (IF n < 10 THEN <<"0">> \o IntToString(n) ELSE IntToString(n)) \o <<".","p","n","g">>

ExpectedArtifact(n) == [filePath |-> GcsFolderPath \o <<"/">> \o ExpectedSlideName(n)]

\* the artifacts of all slides but slide f, in slide order
ArtifactsExcept(f) ==
  [k \in 1..(Len(slides) - 1) |-> ExpectedArtifact(IF k < f THEN k ELSE k + 1)]

\* the artifacts of all slides, in slide order
AllArtifacts == [k \in 1..Len(slides) |-> ExpectedArtifact(k)]

\* C18: when capturing or saving one slide fails, that slide is skipped and
\* the artifacts of all other slides are in the returned list, in slide order.
C18_OtherSlidesCaptured ==
  [][(pc = "capture" /\ idx < Len(slides) /\ pc' = "done")
       => result'[1].gcsFiles.screenshots = ArtifactsExcept(idx + 1)]_vars

ExportPcs == {"export", "screenshots", "capture"}

\* a step taken from within the export goes on or returns, and what is
\* returned holds the deck, highlightCount, groupKey and folderDate
ExportStepReturns ==
  pc \in ExportPcs =>
    /\ pc' \in ExportPcs \cup {"done"}
    /\ pc' = "done" =>
         /\ result'[1].ok
         /\ result'[1].html = [goldCount |-> GoldCount(highlights), slides |-> slides]
         /\ result'[1].highlightCount = Len(highlights)
         /\ result'[1].groupKey = GroupKey
         /\ result'[1].folderDate = FolderDate

\* C19: no failure of an export step (saving the deck, launching the capture
\* engine, capturing or saving a slide) fails the invocation: it still returns
\* the deck, highlightCount, groupKey and folderDate.
C19_ExportNeverFails == [][ExportStepReturns]_vars

\* the second slide failed after the first was saved, and the invocation returned
C19_Witness ==
  /\ pc = "done"
  /\ result[1].ok
  /\ browser = "open"
  /\ idx = 1 /\ Len(screenshotFiles) = 1
  /\ result[1].gcsFiles.html # None
  /\ result[1].gcsFiles.screenshots = <<>>

PairwiseDistinct(q) == \A i, j \in 1..Len(q) : q[i] = q[j] => i = j

\* a step that ends an export in which nothing failed: the deck saved and no
\* screenshot run begun, or a screenshot run gone through all slides
CleanExportEnds ==
  /\ pc' = "done"
  /\ env.bucket /\ env.puppeteer /\ env.chromium
  /\ \/ pc = "export" /\ gcsFiles'.html # None
     \/ pc = "capture" /\ idx = Len(slides)

OneArtifactPerSlideReturned ==
  CleanExportEnds =>
    /\ result'[1].gcsFiles.screenshots = AllArtifacts
    /\ PairwiseDistinct(result'[1].gcsFiles.screenshots)

\* C20: when export runs (bucket set, capture engine loaded) and no step
\* fails, the returned list has one artifact per slide, an only and empty
\* slide included, in slide order, named <base>_slide_<nn>.png, all distinct.
C20_OneArtifactPerSlide == [][OneArtifactPerSlideReturned]_vars

\* C20 as amended: a screenshot run that ends without failure returns one
\* artifact per slide, in slide order, named as claimed and all distinct, and
\* such a run is made only for a deck with a highlight; the list of a deck
\* without highlights is empty.
C20_OneArtifactPerSlideOfRun ==
  pc = "done" =>
    /\ browser = "closed" =>
         /\ Len(highlights) > 0
         /\ result[1].gcsFiles.screenshots = AllArtifacts
         /\ PairwiseDistinct(result[1].gcsFiles.screenshots)
    /\ (result[1].ok /\ Len(highlights) = 0) => result[1].gcsFiles.screenshots = <<>>

\* three slides, three artifacts
C20_Witness ==
  /\ pc = "done"
  /\ browser = "closed"
  /\ Len(slides) = 3
  /\ Len(result[1].gcsFiles.screenshots) = 3

(***************************************************************************)
(* Failure and skip paths of generateHighlights                            *)
(***************************************************************************)
\* the invocation has returned a deck
DeckReturned == pc = "done" /\ result # None /\ result[1].ok

\* C21: in a process without data-source credentials an invocation throws at
\* once: it issues no request (no rules-table fetch, no row fetch, no write to
\* the object store), builds nothing and returns no deck.
C21_NoCredentialsFailFast ==
  (~env.credentials /\ pc # "idle") =>
    /\ pc \in {"getClient", "failed"}
    /\ calls = <<>>
    /\ h2hSportsCache = None
    /\ data = <<>> /\ highlights = <<>> /\ slides = <<>>
    /\ gcsFiles = [html |-> None, screenshots |-> <<>>]
    /\ ~DeckReturned
    /\ pc = "failed" => result = Some([ok |-> FALSE, error |-> "credentials"])

\* an invocation for a sheet of eligible rows that threw for want of credentials
C21_Witness ==
  /\ ~env.credentials
  /\ pc = "failed"
  /\ result = Some([ok |-> FALSE, error |-> "credentials"])
  /\ Len(sheets[spreadsheetId].rows) = 2
  /\ calls = <<>>

(***************************************************************************)
(* SpecLoad: generateHighlights on sheets that lack the tab asked for, or  *)
(* whose values end before the header row                                  *)
(***************************************************************************)
\* tabs with and without the one asked for; values of 0, 7 or 8 head rows,
\* the last followed by data rows
LoadSheets ==
  { [readable |-> TRUE, rules |-> <<StdHeader>>, titles |-> t, headRows |-> h,
     rows |-> r] :
      t \in { {SheetName}, {"Schedule"}, {} },
      h \in {0, DATA_START_ROW - 1, DATA_START_ROW},
      r \in SeqsUpTo({GoodRow, NoMedalRow}, MaxRows) }
    \ { sheet \in [readable : {TRUE}, rules : {<<StdHeader>>},
                   titles : { {SheetName}, {"Schedule"}, {} },
                   headRows : {0, DATA_START_ROW - 1},
                   rows : SeqsUpTo({GoodRow, NoMedalRow}, MaxRows)] :
          sheet.rows # <<>> }

InitLoad ==
  /\ pc = "idle"
  /\ env \in ProcessEnvs
  /\ \E sheet \in LoadSheets : sheets = [id \in SpreadsheetIds |-> sheet]
  /\ h2hSportsCache = None
  /\ spreadsheetId = ""
  /\ h2hMapping = {} /\ fetchThrew = FALSE /\ query = <<>> /\ h2hResult = FALSE
  /\ data = <<>> /\ validRows = <<>> /\ highlights = <<>> /\ cards = <<>>
  /\ chunkSize = 0 /\ slides = <<>> /\ prev = None /\ result = None
  /\ input = <<>> /\ output = <<>>
  /\ request = NoFilter /\ calls = <<>>
  /\ NoExport

SpecLoad == InitLoad /\ [][Next]_vars

\* the invocation has left loadData behind
PastLoadData == pc \in {"generate", "export", "screenshots", "capture", "done"}

\* C22: when the sheet asked for is not among the spreadsheet's tabs, loadData
\* throws and the invocation fails without a deck, whatever the row fetch
\* returns.
C22_MissingSheetIsFatal ==
  (pc \notin {"idle", "getClient", "loadRules", "loadData"}
     /\ SheetName \notin sheets[spreadsheetId].titles) =>
    /\ pc = "failed"
    /\ ~DeckReturned

\* no row of the sheet passes the filter
NoRowEligible(sheet) ==
  \/ sheet.headRows + Len(sheet.rows) < DATA_START_ROW
  \/ \A k \in 1..Len(sheet.rows) : ~RowIsValid(sheet.rows[k])

\* C23: when no row is eligible (the values ending before the header row
\* included), the invocation fails only for want of credentials or because the
\* row fetch threw; otherwise it builds and returns highlightCount 0 and a
\* deck of exactly one slide with no card.
C23_NoEligibleRowEmptyDeck ==
  (pc \notin {"idle", "getClient", "loadRules", "loadData"}
     /\ NoRowEligible(sheets[spreadsheetId])) =>
    /\ pc = "failed" => result[1].error \in {"credentials", "loadData"}
    /\ pc \in {"export", "screenshots", "capture", "done"} =>
         highlights = <<>> /\ cards = <<>> /\ slides = << <<>> >>
    /\ pc = "done" =>
         /\ result[1].ok
         /\ result[1].highlightCount = 0
         /\ result[1].html.slides = << <<>> >>
         /\ result[1].html.goldCount = 0

\* a deck returned for values that end one row before the header row
C23_Witness ==
  /\ DeckReturned
  /\ sheets[spreadsheetId].headRows = DATA_START_ROW - 1
  /\ result[1].highlightCount = 0
  /\ result[1].html.slides = << <<>> >>

\* requests that write to the object store or capture a slide
ExportRequests == {"saveHtml", "launch", "screenshot", "saveImage", "close"}

\* C24: without a bucket configured the export is skipped: no write to the
\* object store and no capture is attempted, and the invocation returns the
\* deck with gcsFiles.html null and an empty screenshot list.
C24_NoBucketSkipsExport ==
  (~env.bucket /\ pc # "idle") =>
    /\ \A k \in 1..Len(calls) : calls[k] \notin ExportRequests
    /\ browser = "none"
    /\ pc \notin {"screenshots", "capture"}
    /\ pc = "done" =>
         /\ result[1].ok
         /\ result[1].html.slides = slides
         /\ result[1].highlightCount = Len(highlights)
         /\ result[1].gcsFiles = [html |-> None, screenshots |-> <<>>]

\* a deck of two highlights returned without export
C24_Witness ==
  /\ ~env.bucket
  /\ DeckReturned
  /\ result[1].highlightCount = 2
  /\ result[1].gcsFiles.html = None
  /\ calls = <<"rules", "metadata", "rows">>

(***************************************************************************)
(* SpecFilter: generateHighlights called with a date and a sport           *)
(***************************************************************************)
MaxFilterRows == 2

\* the date argument: ISO, day-first, and a text whose day cannot be read
TargetDates == { <<"2","0","2","5","-","1","2","-","1","0">>, <<"1","0","/","1","2","/","2","0","2","5">>, <<"?","/","1","2","/","2","0","2","5">> }

\* DATE cells: blank, ISO, day-first with dashes, another day, and a text
\* whose day cannot be read
DateCells == { <<>>, <<"2","0","2","5","-","1","2","-","1","0">>, <<"1","0","-","1","2","-","2","0","2","5">>, <<"1","1","/","1","2","/","2","0","2","5">>, <<"x","/","1","2","/","2","0","2","5">> }

FilterRows ==
  { [GoodRow EXCEPT !.DATE_SGP = d, !.SPORT = sp] : d \in DateCells, sp \in {S_Judo, S_Golf} }
    \cup { [NoMedalRow EXCEPT !.DATE_SGP = <<"2","0","2","5","-","1","2","-","1","0">>] }

FilterRequests ==
  [ date : TargetDates \cup {<<>>}, sport : { <<>>, <<"j","u","d","o">> } ]

InitFilter ==
  /\ pc = "idle"
  /\ env = Env(TRUE, FALSE, TRUE, TRUE)
  /\ \E r \in SeqsUpTo(FilterRows, MaxFilterRows) :
       sheets = [id \in SpreadsheetIds |->
                  [readable |-> TRUE, rules |-> <<StdHeader>>, titles |-> {SheetName},
                   headRows |-> DATA_START_ROW, rows |-> r]]
  /\ h2hSportsCache = None
  /\ spreadsheetId = ""
  /\ h2hMapping = {} /\ fetchThrew = FALSE /\ query = <<>> /\ h2hResult = FALSE
  /\ data = <<>> /\ validRows = <<>> /\ highlights = <<>> /\ cards = <<>>
  /\ chunkSize = 0 /\ slides = <<>> /\ prev = None /\ result = None
  /\ input = <<>> /\ output = <<>>
  /\ request = NoFilter /\ calls = <<>>
  /\ NoExport

\* generateHighlights({ spreadsheetId, sheetName, date, sport }) is called
InvokeFiltered ==
  /\ pc \in {"idle", "done", "failed"}
  /\ \E id \in SpreadsheetIds : spreadsheetId' = id
  /\ \E r \in FilterRequests : request' = r
  /\ h2hMapping' = {} /\ fetchThrew' = FALSE
  /\ data' = <<>> /\ validRows' = <<>> /\ highlights' = <<>> /\ cards' = <<>>
  /\ slides' = <<>> /\ result' = None
  /\ gcsFiles' = [html |-> None, screenshots |-> <<>>]
  /\ screenshotFiles' = <<>> /\ idx' = 0 /\ browser' = "none"
  /\ calls' = <<>>
  /\ pc' = "getClient"
  /\ UNCHANGED <<input, output, env, sheets, h2hSportsCache, query, h2hResult,
                 chunkSize, prev>>

NextFilter ==
  \/ InvokeFiltered \/ GetSheetsClient \/ LoadRules \/ LoadData \/ Generate
  \/ SkipExport

SpecFilter == InitFilter /\ [][NextFilter]_vars

\* the calendar date a text normalizes to, when it normalizes to just one
DayOf(t) == CHOOSE d \in NormalizeDate(DateString(t)) : TRUE

\* the row's DATE normalizes to a calendar date, the one the target date
\* normalizes to
OnTargetDate(row) ==
  /\ RowDate(row) # <<>>
  /\ DayOf(RowDate(row)) # <<>>
  /\ DayOf(RowDate(row)) = DayOf(request.date)

RequestedSport(row) ==
  request.sport = <<>> \/ ToLowerCase(Trim(row.SPORT)) = ToLowerCase(request.sport)

\* C25: when a date is given, the deck is built from exactly the eligible
\* rows (of the sport asked for, if any) whose DATE normalizes to the calendar
\* date the target date normalizes to; a row whose DATE is empty or cannot be
\* read is never among them, whatever the target date.
C25_DateFilterExact ==
  (pc \in {"export", "done"} /\ request.date # <<>>) =>
    LET Wanted(row) == RowIsValid(row) /\ OnTargetDate(row) /\ RequestedSport(row)
    IN /\ validRows = SelectSeq(data, Wanted)
       /\ Len(highlights) = Len(validRows)

(***************************************************************************)
(* Icon resolver: loadSportIconMapping, getSportIconUrl (lines 57-189)     *)
(***************************************************************************)
\* s.split(/\s+/): the pieces between runs of white space, k the position
\* read, cur the piece under way, inRun whether the last character was white
RECURSIVE SplitWordsFrom(_, _, _, _)
SplitWordsFrom(s, k, cur, inRun) ==
  IF k > Len(s) THEN <<cur>>
  ELSE IF IsSpace(s[k])
  THEN IF inRun THEN SplitWordsFrom(s, k + 1, cur, TRUE)
       ELSE <<cur>> \o SplitWordsFrom(s, k + 1, <<>>, TRUE)
  ELSE SplitWordsFrom(s, k + 1, Append(cur, s[k]), FALSE)

SplitWords(s) == SplitWordsFrom(s, 1, <<>>, FALSE)

\* pieces.join(r)
RECURSIVE Join(_, _)
Join(pieces, r) ==
  IF Len(pieces) = 1 THEN pieces[1]
  ELSE pieces[1] \o r \o Join(Tail(pieces), r)

\* s.replace(/\s+/g, r)
ReplaceSpaceRuns(s, r) == Join(SplitWords(s), r)

\* a removal of white space that removes nothing
RemoveSpacesKeepsAll(s) == s

\* s.replace(/\s+/g, '')
RemoveSpaces(s) == ReplaceSpaceRuns(s, <<>>)

S_sports_dir == <<"s","p","o","r","t","s","/">>

\* `sports/${fileName}`
IconPath(fileName) == S_sports_dir \o fileName

\* lines 81-121: the keys added after an item's own key
Variations(sport) ==
  IF sport = <<"b","a","t","m","i","n","t","o","n">>
    THEN << <<"b","a","d","m","i","n","t","o","n">> >>
  ELSE IF sport = <<"a","q","u","a","t","i","c"," ","s","p","o","r","t","s">>
    THEN << <<"s","w","i","m","m","i","n","g">>, <<"a","q","u","a","t","i","c","s">> >>
  ELSE IF sport = <<"f","l","y","i","n","g"," ","d","i","s","c","s">>
    THEN << <<"f","l","y","i","n","g"," ","d","i","s","c">> >>
  ELSE IF sport = <<"j","u","i","-","j","i","t","s","u">>
    THEN << <<"j","u","-","j","i","t","s","u">>, <<"j","i","u","-","j","i","t","s","u">> >>
  ELSE IF sport = <<"m","i","x","e","d"," ","m","a","r","t","a","i","l"," ","a","r","t","s">>
    THEN << <<"m","i","x","e","d"," ","m","a","r","t","i","a","l"," ","a","r","t","s">> >>
  ELSE IF sport = <<"e","s","p","o","r","t","s">>
    THEN << <<"e","-","s","p","o","r","t","s">> >>
  ELSE IF sport = <<"c","a","n","o","e","i","n","g">>
    THEN << <<"c","a","n","o","e"," ","a","n","d"," ","r","o","w","i","n","g">>, <<"c","a","n","o","e">>, <<"r","o","w","i","n","g">> >>
  ELSE IF sport = <<"e","x","s","t","r","e","a","m"," ","s","p","o","r","t","s">>
    THEN << <<"e","x","t","r","e","m","e">>, <<"e","x","s","t","r","e","a","m"," ","s","p","o","r","t","s">> >>
  ELSE IF sport = <<"k","a","b","a","d","d","y">>
    THEN << <<"k","a","b","a","d","d","i">>, <<"k","a","b","a","d","d","y">> >>
  ELSE IF sport = <<"s","e","p","a","k"," ","t","a","k","r","a","w">>
    THEN << <<"s","e","p","a","t","a","k","r","a","w">>, <<"s","e","p","a","k"," ","t","a","k","r","a","w">>, <<"s","e","p","a","t","a","k","r","a","w">>, <<"s","e","p","a","t","a","k","r","a","w">> >>
  ELSE << >>

\* mapping[key] = icon on an object whose keys are listed in insertion order
Put(mapping, key, icon) ==
  IF \E i \in 1..Len(mapping) : mapping[i].key = key
  THEN [i \in 1..Len(mapping) |->
          IF mapping[i].key = key THEN [key |-> key, icon |-> icon] ELSE mapping[i]]
  ELSE Append(mapping, [key |-> key, icon |-> icon])

RECURSIVE PutAll(_, _, _)
PutAll(mapping, keys, icon) ==
  IF keys = <<>> THEN mapping
  ELSE PutAll(Put(mapping, Head(keys), icon), Tail(keys), icon)

\* lines 73-122: the lookup object built from the items of the mapping file
RECURSIVE LoadSportIconMapping(_, _)
LoadSportIconMapping(items, mapping) ==
  IF items = <<>> THEN mapping
  ELSE LET sport == ToLowerCase(Head(items).sport)
           icon == IconPath(Head(items).fileName)
       IN LoadSportIconMapping(Tail(items),
            PutAll(Put(mapping, sport, icon), Variations(sport), icon))

\* line 149
ContainsEitherWay(sportKey, key) == Includes(sportKey, key) \/ Includes(key, sportKey)

\* lines 153-155
SharesWord(sportKey, key) ==
  LET sportWords == SplitWords(sportKey)
      keyWords == SplitWords(key)
  IN \E i \in 1..Len(sportWords), j \in 1..Len(keyWords) : sportWords[i] = keyWords[j]

\* lines 159-161
MatchesWithoutSpaces(sportKey, key) ==
  LET sportNoSpace == RemoveSpaces(sportKey)
      keyNoSpace == RemoveSpaces(key)
  IN sportNoSpace = keyNoSpace \/ Includes(sportNoSpace, keyNoSpace)
       \/ Includes(keyNoSpace, sportNoSpace)

\* lines 149-163: the tests one pass of the loop makes on a key
LoopMatches(sportKey, key) ==
  ContainsEitherWay(sportKey, key) \/ SharesWord(sportKey, key)
    \/ MatchesWithoutSpaces(sportKey, key)

\* encodeURIComponent on letters, digits, '-', '_', '.' and the characters below
EncodeURIComponent(s) ==
  LET Enc(c) == IF c = " " THEN <<"%","2","0">>
                ELSE IF c = "/" THEN <<"%","2","F">>
                ELSE IF c = "?" THEN <<"%","3","F">>
                ELSE <<c>>
  IN IF s = <<>> THEN <<>> ELSE Join([k \in 1..Len(s) |-> Enc(s[k])], <<>>)

S_Icon_ == <<"I","c","o","n","_">>
S_png == <<".","p","n","g">>

\* lines 170-174
LocalVariations(sportName) ==
  << S_Icon_ \o ReplaceSpaceRuns(Trim(sportName), <<"_">>) \o S_png,
     S_Icon_ \o ReplaceSpaceRuns(Trim(sportName), <<" ">>) \o S_png,
     S_Icon_ \o Trim(sportName) \o S_png >>

\* lines 184-188
RemoteIcon(sportName) ==
  <<"h","t","t","p","s",":","/","/","s","t","o","r","a","g","e",".","g","o","o","g","l","e","a","p","i","s",".","c","o","m","/","s","e","a","g","a","m","e","s","-","2","0","2","5",".","f","i","r","e","b","a","s","e","s","t","o","r","a","g","e",".","a","p","p","/","c","o","n","t","e","n","t","/">>
    \o <<"S","P","O","R","T","S","-">> \o ReplaceSpaceRuns(ToUpperCase(Trim(sportName)), <<"-">>)
    \o <<"/">> \o S_Icon_ \o EncodeURIComponent(Trim(sportName)) \o S_png

\* getSportIconUrl (lines 135-189) on the lookup object mapping, files being
\* the names in the local icons directory
GetSportIconUrl(sportName, mapping, files) ==
  IF sportName = <<>> THEN <<>>
  ELSE LET sportKey == ToLowerCase(Trim(sportName))
           exact == {i \in 1..Len(mapping) : mapping[i].key = sportKey}
           hits == {i \in 1..Len(mapping) : LoopMatches(sportKey, mapping[i].key)}
           variations == LocalVariations(sportName)
           local == {k \in 1..Len(variations) : variations[k] \in files}
           Least(S) == CHOOSE i \in S : \A j \in S : i <= j
       IN IF exact # {} THEN mapping[Least(exact)].icon
          ELSE IF hits # {} THEN mapping[Least(hits)].icon
          ELSE IF local # {} THEN IconPath(variations[Least(local)])
          ELSE RemoteIcon(sportName)

(***************************************************************************)
(* SpecIcon: one getSportIconUrl call on a lookup object built from a      *)
(* mapping file                                                            *)
(***************************************************************************)
MaxItems == 2

S_SepakTakraw == <<"S","e","p","a","k"," ","t","a","k","r","a","w">>
S_LawnBowls == <<"L","a","w","n"," ","B","o","w","l","s">>
S_Tennis == <<"T","e","n","n","i","s">>

\* sports named in the mapping file
ItemSports == { S_SepakTakraw, <<"S","e","p","a","k">>, S_Tennis, S_LawnBowls, S_Judo }

IconFile(sportName) == S_Icon_ \o sportName \o S_png

IconItems == { [sport |-> sp, fileName |-> IconFile(sp)] : sp \in ItemSports }

\* the names the resolver is asked for
IconQueries ==
  { <<>>, S_SepakTakraw, <<"S","e","p","a","k"," "," ","t","a","k","r","a","w">>, <<"S","e","p","a","k","t","a","k","r","a","w">>, <<"L","a","w","n"," ","T","e","n","n","i","s">>, <<" ","j","u","d","o"," ">>, <<"C","h","e","s","s">> }

\* the local icons directory: empty, or holding the icon of Chess
IconDirs == { {}, { IconFile(<<"C","h","e","s","s">>) } }

InitIcon ==
  /\ pc = "icon"
  /\ data \in SeqsUpTo(IconItems, MaxItems)
  /\ \E files \in IconDirs : env = [credentials |-> TRUE, icons |-> files]
  /\ sheets = <<>> /\ h2hSportsCache = None /\ spreadsheetId = ""
  /\ h2hMapping = {} /\ fetchThrew = FALSE /\ query = <<>> /\ h2hResult = FALSE
  /\ validRows = <<>> /\ highlights = <<>> /\ cards = <<>>
  /\ chunkSize = 0 /\ slides = <<>> /\ prev = None /\ result = None
  /\ input = <<>> /\ output = <<>>
  /\ request = NoFilter /\ calls = <<>>
  /\ NoExport

\* one call getSportIconUrl(sportName), data being the items of the mapping file
DoGetSportIconUrl ==
  /\ pc = "icon"
  /\ \E sportName \in IconQueries :
       /\ input' = sportName
       /\ output' = GetSportIconUrl(sportName, LoadSportIconMapping(data, <<>>), env.icons)
  /\ pc' = "iconed"
  /\ UNCHANGED <<gcsFiles, screenshotFiles, idx, browser, request, calls, env,
                 sheets, h2hSportsCache, spreadsheetId, h2hMapping, fetchThrew,
                 query, h2hResult, data, validRows, highlights, cards, chunkSize,
                 slides, prev, result>>

NextIcon == DoGetSportIconUrl

SpecIcon == InitIcon /\ [][NextIcon]_vars

\* the lookup object of the call
IconTable == LoadSportIconMapping(data, <<>>)

\* the name as it is looked up
AskedKey == ToLowerCase(Trim(input))

\* the first key of the table, in table order, among those numbered in S
FirstOf(S) == CHOOSE i \in S : \A j \in S : i <= j

\* the keys matching the name by each strategy
ExactKeys == {i \in 1..Len(IconTable) : IconTable[i].key = AskedKey}
SubstringKeys ==
  {i \in 1..Len(IconTable) :
     Includes(AskedKey, IconTable[i].key) \/ Includes(IconTable[i].key, AskedKey)}
TokenKeys ==
  {i \in 1..Len(IconTable) :
     \E w \in Range(SplitWords(AskedKey)) : w \in Range(SplitWords(IconTable[i].key))}
Squeeze(t) == LET NotSpace(c) == ~IsSpace(c) IN SelectSeq(t, NotSpace)
SqueezedKeys ==
  {i \in 1..Len(IconTable) :
     \/ Includes(Squeeze(AskedKey), Squeeze(IconTable[i].key))
     \/ Includes(Squeeze(IconTable[i].key), Squeeze(AskedKey))}

\* C26: the icon is resolved by strategy order, first hit wins: exact match,
\* else substring match with any key, else token overlap with any key, else
\* whitespace-insensitive match with any key; so a key matched by substring
\* wins over a key matched only by token overlap wherever the two sit.
C26_StrategyOrder ==
  (pc = "iconed" /\ input # <<>>) =>
    /\ ExactKeys # {} => output = IconTable[FirstOf(ExactKeys)].icon
    /\ (ExactKeys = {} /\ SubstringKeys # {}) =>
         output = IconTable[FirstOf(SubstringKeys)].icon
    /\ (ExactKeys = {} /\ SubstringKeys = {} /\ TokenKeys # {}) =>
         output = IconTable[FirstOf(TokenKeys)].icon
    /\ (ExactKeys = {} /\ SubstringKeys = {} /\ TokenKeys = {} /\ SqueezedKeys # {}) =>
         output = IconTable[FirstOf(SqueezedKeys)].icon

\* key i is the name up to letter case and internal white space
SameUpToSpacing(i) == Squeeze(IconTable[i].key) = Squeeze(AskedKey)

\* C27: a name that differs from a table key only in letter case and internal
\* white space resolves to that key's icon, whatever else the table holds.
C27_SpacingInsensitive ==
  pc = "iconed" =>
    \A i \in 1..Len(IconTable) : SameUpToSpacing(i) => output = IconTable[i].icon

\* C27 as it holds: a name that differs from a key only in letter case
\* resolves to that key's icon whatever else the table holds; a name that
\* differs from key i in internal white space too resolves to the icon of the
\* first key, in table order, that contains it or is contained in it, shares a
\* word with it or matches it without white space: key i's icon when no key
\* before i is such a key, and never the file or remote fallback.
C27_SpacingInsensitiveFirstKey ==
  pc = "iconed" =>
    \A i \in 1..Len(IconTable) :
      SameUpToSpacing(i) =>
        /\ IconTable[i].key = AskedKey => output = IconTable[i].icon
        /\ ExactKeys = {} =>
             LET first == FirstOf(SubstringKeys \cup TokenKeys \cup SqueezedKeys)
             IN /\ first <= i
                /\ output = IconTable[first].icon
                /\ (SubstringKeys \cup TokenKeys \cup SqueezedKeys) \cap 1..(i - 1) = {}
                     => output = IconTable[i].icon

\* 'Sepaktakraw' resolved through the key 'sepak takraw' placed after 'judo'
C27_Witness ==
  /\ pc = "iconed"
  /\ input = <<"S","e","p","a","k","t","a","k","r","a","w">>
  /\ Len(data) = 2 /\ data[1].sport = S_Judo /\ data[2].sport = S_SepakTakraw
  /\ output = IconPath(IconFile(S_SepakTakraw))

(***************************************************************************)
(* formatTiming: the segments after the first one kept                     *)
(***************************************************************************)
\* C28: formatTiming changes the leading units only: of an input with a
\* non-zero hour the minute segment comes back with the digits it was written
\* with and the seconds segment unaltered, and of an input whose first unit
\* kept is the minute the seconds segment comes back unaltered.
C28_LaterSegmentsVerbatim ==
  pc = "timed" =>
    LET segs == SegmentsIn(input)
        out == SegmentsIn(output)
    IN /\ (Len(segs) = 3 /\ NonZeroUnit(segs[1]) /\ AllDigits(segs[2])) =>
            (Len(out) = 3 /\ out[2] = segs[2] /\ out[3] = segs[3])
       /\ (Len(segs) = 3 /\ ZeroUnit(segs[1]) /\ NonZeroUnit(segs[2])) =>
            (Len(out) = 2 /\ out[2] = segs[3])
       /\ (Len(segs) = 2 /\ NonZeroUnit(segs[1])) =>
            (Len(out) = 2 /\ out[2] = segs[2])

(***************************************************************************)
(* SpecCache: loadH2HSportsMapping called by invocations that may overlap: *)
(* a call is suspended at the await of line 247 until the response arrives *)
(***************************************************************************)
MaxCallers == 2

Callers == 1..MaxCallers

CacheSheets ==
  [ readable : BOOLEAN,
    rules : {<<StdHeader>>, <<StdHeader, <<S_Judo, <<>>, S_yes>> >>} ]

InitCache ==
  /\ pc = [c \in Callers |-> "idle"]
  /\ sheets \in [SpreadsheetIds -> CacheSheets]
  /\ h2hSportsCache = None
  /\ spreadsheetId = [c \in Callers |-> ""]
  /\ h2hMapping = [c \in Callers |-> {}]
  /\ env = [credentials |-> TRUE]
  /\ fetchThrew = FALSE /\ query = <<>> /\ h2hResult = FALSE
  /\ data = <<>> /\ validRows = <<>> /\ highlights = <<>> /\ cards = <<>>
  /\ chunkSize = 0 /\ slides = <<>> /\ prev = None /\ result = None
  /\ input = <<>> /\ output = <<>>
  /\ request = NoFilter /\ calls = <<>>
  /\ NoExport

\* lines 246-303: the index a call builds from the response to its request
FetchedIndex(id) == IF RulesFetchThrows(id) THEN {} ELSE BuildIndex(sheets[id].rules)

\* lines 241-250: caller c calls loadH2HSportsMapping(sheetsClient, id); with
\* the cache set the call returns it, else the table is requested and the call
\* waits for the response
CallLoadRules(c) ==
  /\ pc[c] \in {"idle", "returned"}
  /\ \E id \in SpreadsheetIds :
       /\ spreadsheetId' = [spreadsheetId EXCEPT ![c] = id]
       /\ IF h2hSportsCache # None
          THEN /\ h2hMapping' = [h2hMapping EXCEPT ![c] = h2hSportsCache[1]]
               /\ pc' = [pc EXCEPT ![c] = "returned"]
               /\ UNCHANGED calls
          ELSE /\ calls' = Append(calls, id)
               /\ pc' = [pc EXCEPT ![c] = "fetching"]
               /\ UNCHANGED h2hMapping
  /\ UNCHANGED <<gcsFiles, screenshotFiles, idx, browser, request, input, output, env,
                 sheets, h2hSportsCache, fetchThrew, query, h2hResult, data,
                 validRows, highlights, cards, chunkSize, slides, prev, result>>

\* lines 252-303: the response (or the error) arrives, the index is built,
\* stored in the cache and returned
ResumeLoadRules(c) ==
  /\ pc[c] = "fetching"
  /\ h2hSportsCache' = Some(FetchedIndex(spreadsheetId[c]))
  /\ h2hMapping' = [h2hMapping EXCEPT ![c] = FetchedIndex(spreadsheetId[c])]
  /\ pc' = [pc EXCEPT ![c] = "returned"]
  /\ UNCHANGED <<gcsFiles, screenshotFiles, idx, browser, request, calls, input, output,
                 env, sheets, spreadsheetId, fetchThrew, query, h2hResult, data,
                 validRows, highlights, cards, chunkSize, slides, prev, result>>

NextCache ==
  \/ \E c \in Callers : CallLoadRules(c)
  \/ \E c \in Callers : ResumeLoadRules(c)

SpecCache == InitCache /\ [][NextCache]_vars

\* once the index is set, a step leaves it as it is and requests no table
CacheKept ==
  h2hSportsCache # None => (h2hSportsCache' = h2hSportsCache /\ calls' = calls)

\* C29: the rule index goes from unset to set at most once per process: once
\* a loadH2HSportsMapping call has completed and stored an index (the empty
\* index of a failed read included), the index never changes again, every
\* later call returns it, and the rules table is not fetched again.
C29_IndexSetOnce == [][CacheKept]_vars

(***************************************************************************)
(* generateScreenshotsToGCS: the browser it launched, when it has ended    *)
(***************************************************************************)
\* generateScreenshotsToGCS has returned or thrown: the process has ended
ScreenshotsEnded == pc \in {"done", "failed"}

\* C30: every browser generateScreenshotsToGCS launches is closed before the
\* function returns or throws, whether it completes or a step after the
\* launch (loading the page, capturing a slide, saving an image) fails.
C30_BrowserAlwaysClosed == ScreenshotsEnded => browser # "open"

====
